---- MODULE Spec2Model ----
(***************************************************************************)
(* Sweep orchestration and post-processing pipeline of amp-benchkit        *)
(* (amp_benchkit/sweeps.py): the numerical helpers and the two sweep       *)
(* drivers thd_sweep and knee_sweep.                                       *)
(***************************************************************************)
EXTENDS Integers, Sequences, FiniteSets, TLC

VARIABLES
    call,       \* the helper call under test: name, arguments and result
    fn,         \* which driver runs: "thd_sweep" or "knee_sweep"
    args,       \* the driver's keyword arguments
    pc,         \* position in the driver's body
    pending,    \* the exception in flight out of sweep_audio_kpis
    raw_rows,   \* rows collected by sweep_audio_kpis
    knees,      \* knee result of sweep_audio_kpis (knee_sweep only)
    gen_calls,  \* every fy_apply call issued, in order; ok tells whether it returned
    scope_cmds, \* every oscilloscope call issued, in order; ok tells whether it returned
    csv,        \* the CSV file on disk: existence, header and data lines
    log,        \* warnings logged on logger amp_benchkit.sweeps
    result,     \* the value the driver builds and returns
    outcome     \* how the driver ended: running, returned or raised

driver_vars == <<fn, args, pc, pending, raw_rows, knees, gen_calls, scope_cmds, csv, log, result, outcome>>
vars == <<call, fn, args, pc, pending, raw_rows, knees, gen_calls, scope_cmds, csv, log, result, outcome>>

(***************************************************************************)
(* Python floats.  A finite value is v/60 + (e/60) * 1e-12 with integer v  *)
(* and e, so that the mean of up to five whole values is exact; the three  *)
(* non-finite values are kept apart, with Python's comparison rules (every *)
(* comparison with NaN is false).  Fin(n) is the float n.0.                *)
(***************************************************************************)
Fin(n) == [k |-> "fin", v |-> 60 * n, e |-> 0]
NaN == [k |-> "nan", v |-> 0, e |-> 0]
PInf == [k |-> "inf", v |-> 1, e |-> 0]
NInf == [k |-> "inf", v |-> -1, e |-> 0]

isfinite(x) == x.k = "fin"

Gt(a, b) ==
    IF a.k = "nan" \/ b.k = "nan" THEN FALSE
    ELSE IF a.k = "inf" THEN a.v = 1 /\ b # PInf
    ELSE IF b.k = "inf" THEN b.v = -1
    ELSE a.v > b.v \/ (a.v = b.v /\ a.e > b.e)

Le(a, b) ==
    IF a.k = "nan" \/ b.k = "nan" THEN FALSE
    ELSE ~Gt(a, b)

Positive(x) == Gt(x, Fin(0))

Reverse(s) == [i \in 1..Len(s) |-> s[Len(s) + 1 - i]]

MaxOf(S) == CHOOSE m \in S : \A j \in S : j <= m

Min2(a, b) == IF a < b THEN a ELSE b
Max2(a, b) == IF a > b THEN a ELSE b

(***************************************************************************)
(* _monotonic_envelope: a running maximum walked left-to-right over        *)
(* vals[:idx+1] and right-to-left over vals[idx:], merged without the      *)
(* low side's last element.  ref_index is the 0-based Python index.        *)
(***************************************************************************)
RECURSIVE running_max(_, _, _)
running_max(vals, current, env) ==
    IF vals = <<>> THEN env
    ELSE LET val == Head(vals)
             v0 == IF isfinite(val) THEN val ELSE current
             v == IF ~isfinite(v0)
                  THEN (IF isfinite(current) THEN current ELSE Fin(0))
                  ELSE v0
             nxt == IF ~isfinite(current) \/ Gt(v, current) THEN v ELSE current
         IN running_max(Tail(vals), nxt, Append(env, nxt))

_monotonic_envelope(values, ref_index) ==
    LET n == Len(values)
        idx == Max2(0, Min2(ref_index, n - 1))
        lo == SubSeq(values, 1, idx + 1)
        hi == SubSeq(values, idx + 1, n)
        lo_env == running_max(lo, NInf, <<>>)
        hi_env == Reverse(running_max(Reverse(hi), NInf, <<>>))
    IN IF n = 0 THEN <<>>
       ELSE SubSeq(lo_env, 1, Len(lo_env) - 1) \o hi_env

(***************************************************************************)
(* _clean_amplitudes: entries that are finite and > 0 are kept, any other  *)
(* entry takes the last kept value (Tiny, 1e-12, before the first one).    *)
(***************************************************************************)
\* mutant: the carry-forward value starts at zero
Tiny_zero == [k |-> "fin", v |-> 0, e |-> 0]

Tiny == [k |-> "fin", v |-> 0, e |-> 60]

AbsF(x) == IF isfinite(x) /\ Gt(Fin(0), x) THEN [k |-> "fin", v |-> -x.v, e |-> -x.e] ELSE x

\* mutant: a negative entry is taken for a valid magnitude
IsValidAmp_magnitude(amp) == isfinite(amp) /\ amp # Fin(0)

IsValidAmp(amp) == isfinite(amp) /\ Positive(amp)

RECURSIVE clean_loop(_, _, _)
clean_loop(amps, last_finite, cleaned) ==
    IF amps = <<>> THEN cleaned
    ELSE LET amp == Head(amps)
             nxt == IF IsValidAmp(amp) THEN AbsF(amp) ELSE last_finite
         IN clean_loop(Tail(amps), nxt, Append(cleaned, nxt))

\* mutant: the detector works on the raw amplitudes
_clean_amplitudes_unsanitized(amps) == amps

_clean_amplitudes(amps) == clean_loop(amps, Tiny, <<>>)

(***************************************************************************)
(* _smooth_series: centred rolling mean or median over the absolute values *)
(* of the finite entries of an edge-padded window.                         *)
(***************************************************************************)
RECURSIVE insert_sorted(_, _)
insert_sorted(sorted, x) ==
    IF sorted = <<>> THEN <<x>>
    ELSE IF Gt(Head(sorted), x) THEN <<x>> \o sorted
    ELSE <<Head(sorted)>> \o insert_sorted(Tail(sorted), x)

RECURSIVE sort_floats(_)
sort_floats(xs) ==
    IF xs = <<>> THEN <<>> ELSE insert_sorted(sort_floats(Tail(xs)), Head(xs))

RECURSIVE sum_v(_)
sum_v(xs) == IF xs = <<>> THEN 0 ELSE Head(xs).v + sum_v(Tail(xs))

RECURSIVE sum_e(_)
sum_e(xs) == IF xs = <<>> THEN 0 ELSE Head(xs).e + sum_e(Tail(xs))

fmean(xs) == [k |-> "fin", v |-> sum_v(xs) \div Len(xs), e |-> sum_e(xs) \div Len(xs)]

median(xs) ==
    LET sorted == sort_floats(xs)
        n == Len(xs)
        mid == n \div 2
    IN IF n % 2 = 1 THEN sorted[mid + 1]
       ELSE fmean(<<sorted[mid], sorted[mid + 1]>>)

\* mutant: the finite entries are reduced with their sign
finite_abs_signed(segment) == SelectSeq(segment, isfinite)

finite_abs(segment) ==
    LET fin == SelectSeq(segment, isfinite)
    IN [i \in 1..Len(fin) |-> AbsF(fin[i])]

lower(str) ==
    CASE str = "MEAN" -> "mean"
      [] str = "MEDIAN" -> "median"
      [] str = "NONE" -> "none"
      [] str = "FREQ" -> "freq"
      [] str = "MAX" -> "max"
      [] OTHER -> str

\* mutant: a window of exactly 1 is smoothed like any other
_smooth_series_window_one(values, window, mode) ==
    LET n == Len(values)
        win0 == Max2(1, window)
        win == IF win0 % 2 = 0 THEN win0 + 1 ELSE win0
        half == win \div 2
        padded == [j \in 1..(n + 2 * half) |->
                      IF j <= half THEN values[1]
                      ELSE IF j > half + n THEN values[n]
                      ELSE values[j - half]]
        reduce(i) ==
            LET finite == finite_abs(SubSeq(padded, i, i + win - 1))
            IN IF finite = <<>> THEN NaN
               ELSE IF lower(mode) = "mean" THEN fmean(finite)
               ELSE median(finite)
    IN IF n = 0 \/ window < 1 THEN values
       ELSE [i \in 1..n |-> reduce(i)]

_smooth_series(values, window, mode) ==
    LET n == Len(values)
        win0 == Max2(1, window)
        win == IF win0 % 2 = 0 THEN win0 + 1 ELSE win0
        half == win \div 2
        padded == [j \in 1..(n + 2 * half) |->
                      IF j <= half THEN values[1]
                      ELSE IF j > half + n THEN values[n]
                      ELSE values[j - half]]
        reduce(i) ==
            LET finite == finite_abs(SubSeq(padded, i, i + win - 1))
            IN IF finite = <<>> THEN NaN
               ELSE IF lower(mode) = "mean" THEN fmean(finite)
               ELSE median(finite)
    IN IF n = 0 \/ window <= 1 THEN values
       ELSE [i \in 1..n |-> reduce(i)]

(***************************************************************************)
(* _reference_index: the 0-based index taken as the 0 dB reference.        *)
(***************************************************************************)
AbsDiff(a, b) == IF a.v >= b.v THEN a.v - b.v ELSE b.v - a.v

startswith_freq(mode) == mode \in {"freq", "frequency"}

\* mutant: among equal candidates the last one wins
_reference_index_last_wins(freqs, amps, ref_mode, ref_hz) ==
    LET n == Len(freqs)
        finite_indices == {i \in 1..Min2(n, Len(amps)) : isfinite(amps[i]) /\ Positive(amps[i])}
        nearest == CHOOSE i \in finite_indices :
                      \A j \in finite_indices :
                          \/ AbsDiff(freqs[i], ref_hz) < AbsDiff(freqs[j], ref_hz)
                          \/ (AbsDiff(freqs[i], ref_hz) = AbsDiff(freqs[j], ref_hz) /\ i >= j)
        greatest == CHOOSE i \in finite_indices :
                       \A j \in finite_indices :
                           \/ Gt(amps[i], amps[j])
                           \/ (~Gt(amps[j], amps[i]) /\ i >= j)
    IN IF n = 0 \/ finite_indices = {} THEN 0
       ELSE IF startswith_freq(lower(ref_mode)) THEN nearest - 1
       ELSE greatest - 1

_reference_index(freqs, amps, ref_mode, ref_hz) ==
    LET n == Len(freqs)
        finite_indices == {i \in 1..Min2(n, Len(amps)) : isfinite(amps[i]) /\ Positive(amps[i])}
        nearest == CHOOSE i \in finite_indices :
                      \A j \in finite_indices :
                          \/ AbsDiff(freqs[i], ref_hz) < AbsDiff(freqs[j], ref_hz)
                          \/ (AbsDiff(freqs[i], ref_hz) = AbsDiff(freqs[j], ref_hz) /\ i <= j)
        greatest == CHOOSE i \in finite_indices :
                       \A j \in finite_indices :
                           \/ Gt(amps[i], amps[j])
                           \/ (~Gt(amps[j], amps[i]) /\ i <= j)
    IN IF n = 0 \/ finite_indices = {} THEN 0
       ELSE IF startswith_freq(lower(ref_mode)) THEN nearest - 1
       ELSE greatest - 1

(***************************************************************************)
(* 20 * log10(x) for a finite x > 0, rounded down to a whole dB.          *)
(* DbThreshold[d + 36] is the smallest v whose level is at least d dB.     *)
(***************************************************************************)
DbThreshold ==
    <<2, 2, 2, 2, 2, 2, 3, 3, 3, 4, 4, 4, 5, 5, 6, 6, 7, 8, 9, 10, 11, 12,
      14, 16, 17, 19, 22, 24, 27, 31, 34, 38, 43, 48, 54, 60, 68, 76, 85, 96,
      107, 120, 135, 151, 170, 190, 213, 239, 269, 301, 338, 379, 425, 477,
      535, 600, 674, 756, 848, 951, 1067, 1198, 1344, 1508, 1692, 1898>>

db20log10(x) ==
    IF x.v = 0 THEN -240
    ELSE IF x.v < DbThreshold[1] THEN -36
    ELSE MaxOf({i \in 1..Len(DbThreshold) : DbThreshold[i] <= x.v}) - 36

(***************************************************************************)
(* Float arithmetic on finite values; NaN when an operand is not finite.   *)
(***************************************************************************)
SubF(a, b) ==
    IF isfinite(a) /\ isfinite(b) THEN [k |-> "fin", v |-> a.v - b.v, e |-> a.e - b.e] ELSE NaN

ScaleF(a, m) == IF isfinite(a) THEN [k |-> "fin", v |-> a.v * m, e |-> a.e * m] ELSE a

DivF(a, m) == IF isfinite(a) THEN [k |-> "fin", v |-> a.v \div m, e |-> a.e \div m] ELSE a

(***************************************************************************)
(* _filter_spikes: a THD reading above max(min_percent, baseline * factor) *)
(* is replaced by baseline, the median of the finite THD readings of the   *)
(* rows within +/-window positions.  Rows are records of the tuple's       *)
(* fields; idx is the 1-based position.                                    *)
(***************************************************************************)
\* mutant: the row itself is counted among its neighbours
spike_neighbors_with_self(rows, idx, window) ==
    LET total == Len(rows)
        js == SelectSeq([j \in 1..total |-> j],
                        LAMBDA j : /\ j >= Max2(1, idx - window)
                                   /\ j <= Min2(total, idx + window)
                                   /\ isfinite(rows[j].thd_percent))
    IN [m \in 1..Len(js) |-> rows[js[m]].thd_percent]

spike_neighbors(rows, idx, window) ==
    LET total == Len(rows)
        js == SelectSeq([j \in 1..total |-> j],
                        LAMBDA j : /\ j >= Max2(1, idx - window)
                                   /\ j <= Min2(total, idx + window)
                                   /\ j # idx
                                   /\ isfinite(rows[j].thd_percent))
    IN [m \in 1..Len(js) |-> rows[js[m]].thd_percent]

spike_threshold(min_percent, baseline, factor) ==
    IF Gt(ScaleF(baseline, factor), min_percent) THEN ScaleF(baseline, factor) ELSE min_percent

\* mutant: a THD equal to the threshold counts as a spike
is_spike_inclusive(rows, idx, window, factor, min_percent) ==
    LET neighbors == spike_neighbors(rows, idx, window)
    IN /\ neighbors # <<>>
       /\ isfinite(rows[idx].thd_percent)
       /\ ~Gt(spike_threshold(min_percent, median(neighbors), factor), rows[idx].thd_percent)

is_spike(rows, idx, window, factor, min_percent) ==
    LET neighbors == spike_neighbors(rows, idx, window)
    IN /\ neighbors # <<>>
       /\ isfinite(rows[idx].thd_percent)
       /\ Gt(rows[idx].thd_percent, spike_threshold(min_percent, median(neighbors), factor))

\* mutant: a spike row is dropped from the output and the list is the other way round
_filter_spikes_drops_rows(rows, window, factor, min_percent) ==
    LET baseline(idx) == median(spike_neighbors(rows, idx, window))
        kept == SelectSeq([j \in 1..Len(rows) |-> j],
                          LAMBDA j : ~is_spike(rows, j, window, factor, min_percent))
        hits == SelectSeq([j \in 1..Len(rows) |-> j],
                          LAMBDA j : is_spike(rows, j, window, factor, min_percent))
        suppressed == [m \in 1..Len(hits) |->
                          [freq |-> rows[hits[m]].freq,
                           original |-> rows[hits[m]].thd_percent,
                           baseline |-> baseline(hits[m])]]
    IN [rows |-> [m \in 1..Len(kept) |-> rows[kept[m]]], suppressed |-> suppressed]

_filter_spikes(rows, window, factor, min_percent) ==
    LET baseline(idx) == median(spike_neighbors(rows, idx, window))
        filtered == [idx \in 1..Len(rows) |->
                        IF is_spike(rows, idx, window, factor, min_percent)
                        THEN [rows[idx] EXCEPT !.thd_percent = baseline(idx)]
                        ELSE rows[idx]]
        hits == SelectSeq([j \in 1..Len(rows) |-> j],
                          LAMBDA j : is_spike(rows, j, window, factor, min_percent))
        suppressed == [m \in 1..Len(hits) |->
                          [freq |-> rows[hits[m]].freq,
                           original |-> rows[hits[m]].thd_percent,
                           baseline |-> baseline(hits[m])]]
    IN [rows |-> filtered, suppressed |-> suppressed]

(***************************************************************************)
(* find_knees (amp_benchkit.dsp): the reference sample, its level in dB    *)
(* and the first samples on either side of it whose level is at or below   *)
(* ref_db - drop_db.  Knees are absent when neither side crosses.          *)
(***************************************************************************)
NoKnees == [found |-> FALSE, f_lo |-> NaN, f_hi |-> NaN, ref_amp |-> NaN, ref_db |-> NaN]

find_knees(freqs, amps, ref_mode, ref_hz, drop_db) ==
    LET n == Len(freqs)
        ref == _reference_index(freqs, amps, ref_mode, ref_hz) + 1
        ref_db == db20log10(amps[ref])
        target == ref_db - (drop_db.v \div 60)
        below == {i \in 1..n : isfinite(amps[i]) /\ Positive(amps[i])
                               /\ db20log10(amps[i]) <= target}
        lows == {i \in below : i < ref}
        highs == {i \in below : i > ref}
        f_lo == IF lows = {} THEN NaN ELSE freqs[MaxOf(lows)]
        f_hi == IF highs = {} THEN NaN ELSE freqs[CHOOSE i \in highs : \A j \in highs : i <= j]
    IN IF n < 2 \/ Len(amps) # n \/ ~(isfinite(amps[ref]) /\ Positive(amps[ref])) THEN NoKnees
       ELSE IF lows = {} /\ highs = {} THEN NoKnees
       ELSE [found |-> TRUE, f_lo |-> f_lo, f_hi |-> f_hi,
             ref_amp |-> amps[ref], ref_db |-> Fin(ref_db)]

(***************************************************************************)
(* knee_sweep._knee_detector: the series handed to find_knees.             *)
(***************************************************************************)
NoneStr == "None"

smoothing_mode(a) == lower(IF a.smoothing \in {NoneStr, ""} THEN "none" ELSE a.smoothing)

\* mutant: the reference index is selected on the sanitized series, before smoothing
knee_processed_reference_unsmoothed(a, freq_list, amps, ref_mode, ref_hz) ==
    LET mode == smoothing_mode(a)
        window == Max2(1, a.smooth_window)
        cleaned == _clean_amplitudes(amps)
        smoothed == IF mode # "none" /\ Len(cleaned) > 1 /\ window > 1
                    THEN _smooth_series(cleaned, window, mode)
                    ELSE cleaned
    IN IF a.enforce_monotonic /\ Len(smoothed) > 2
       THEN _monotonic_envelope(smoothed, _reference_index(freq_list, cleaned, ref_mode, ref_hz))
       ELSE smoothed

knee_processed(a, freq_list, amps, ref_mode, ref_hz) ==
    LET mode == smoothing_mode(a)
        window == Max2(1, a.smooth_window)
        cleaned == _clean_amplitudes(amps)
        smoothed == IF mode # "none" /\ Len(cleaned) > 1 /\ window > 1
                    THEN _smooth_series(cleaned, window, mode)
                    ELSE cleaned
    IN IF a.enforce_monotonic /\ Len(smoothed) > 2
       THEN _monotonic_envelope(smoothed, _reference_index(freq_list, smoothed, ref_mode, ref_hz))
       ELSE smoothed

_knee_detector(a, freq_list, amps, ref_mode, ref_hz, drop_db) ==
    find_knees(freq_list, knee_processed(a, freq_list, amps, ref_mode, ref_hz),
               ref_mode, ref_hz, drop_db)

(***************************************************************************)
(* Values shared by the two sweep drivers.                                 *)
(***************************************************************************)
None == [k |-> "none", v |-> 0, e |-> 0]

NoCurve == [k |-> "none", ratio |-> 0, gain |-> 0]

NoExc == [type |-> "", msg |-> ""]

ValueError(msg) == [type |-> "ValueError", msg |-> msg]

Running == [kind |-> "running", exc |-> NoExc]

NoFile == [exists |-> FALSE, header |-> <<>>, lines |-> <<>>]

EmptyResult ==
    [rows |-> <<>>, suppressed |-> <<>>, out_path |-> NoneStr,
     knees |-> NoKnees, ref_db |-> NaN, target_db |-> NaN]

\* CalibrationCurve (amp_benchkit.calibration): apply() and ratio_at()
curve_apply(curve, freq, value) == ScaleF(value, curve.gain)

ratio_at(curve, freq) == curve.ratio

\* build_freq_points(start, stop, points, mode="log"): points ascending
\* log-spaced frequencies
build_freq_points(points) ==
    [i \in 1..points |-> Fin(IF i = 1 THEN 1 ELSE IF i = 2 THEN 2 ELSE IF i = 3 THEN 4
                             ELSE IF i = 4 THEN 8 ELSE 16)]

(***************************************************************************)
(* Argument validation of thd_sweep and knee_sweep: the message of the     *)
(* first ValueError raised, or "ok".                                       *)
(***************************************************************************)
\* mutant: a single point is accepted
bad_points_off_by_one(a) == a.points < 1

bad_points(a) == a.points < 2

bad_amp_vpp(a) == ~isfinite(a.amp_vpp) \/ Le(a.amp_vpp, Fin(0))

bad_dwell_s(a) == ~isfinite(a.dwell_s) \/ Gt(Fin(0), a.dwell_s)

\* mutant: a drop of exactly 0 dB is accepted
bad_knee_drop_db_zero_ok(a) == ~isfinite(a.knee_drop_db) \/ Gt(Fin(0), a.knee_drop_db)

bad_knee_drop_db(a) == ~isfinite(a.knee_drop_db) \/ Le(a.knee_drop_db, Fin(0))

bad_calibration(a) == a.calibrate_to_vpp # None /\ a.calibration_curve = NoCurve

thd_validation(a) ==
    IF bad_points(a) THEN "points must be >= 2"
    ELSE IF bad_amp_vpp(a) THEN "amp_vpp must be > 0"
    ELSE IF bad_dwell_s(a) THEN "dwell_s must be >= 0"
    ELSE IF bad_calibration(a) THEN "calibrate_to_vpp requires calibration_curve"
    ELSE "ok"

knee_validation(a) ==
    IF bad_points(a) THEN "points must be >= 2"
    ELSE IF bad_amp_vpp(a) THEN "amp_vpp must be > 0"
    ELSE IF bad_dwell_s(a) THEN "dwell_s must be >= 0"
    ELSE IF bad_knee_drop_db(a) THEN "knee_drop_db must be > 0"
    ELSE IF bad_calibration(a) THEN "calibrate_to_vpp requires calibration_curve"
    ELSE IF smoothing_mode(a) \notin {"median", "mean", "none"}
         THEN "smoothing must be one of 'median', 'mean', or 'none'"
    ELSE "ok"

\* the amplitude handed to sweep_audio_kpis and its per-frequency strategy
sweep_amp(a) == IF a.calibrate_to_vpp # None THEN a.calibrate_to_vpp ELSE a.amp_vpp

\* mutant: only a ratio of exactly zero falls back to the target
_amp_strategy_zero_only(a, freq) ==
    IF ratio_at(a.calibration_curve, freq) = 0 THEN a.calibrate_to_vpp
    ELSE DivF(a.calibrate_to_vpp, ratio_at(a.calibration_curve, freq))

_amp_strategy(a, freq) ==
    IF ratio_at(a.calibration_curve, freq) <= 0 THEN a.calibrate_to_vpp
    ELSE DivF(a.calibrate_to_vpp, ratio_at(a.calibration_curve, freq))

\* amp_vpp_strategy as handed to sweep_audio_kpis, by its value at freq: None
\* when no strategy is installed
amp_vpp_strategy(a, freq) ==
    IF a.calibrate_to_vpp # None /\ a.calibration_curve # NoCurve
    THEN _amp_strategy(a, freq)
    ELSE None

\* a call together with how it ended: ok is FALSE when it raised
issued(c, ok) == c @@ [ok |-> ok]

\* _fy_apply(**kw): fy_apply on the caller's port and protocol
_fy_apply(a, freq_hz, amp_vpp) ==
    [port |-> a.fy_port, proto |-> a.fy_proto, freq_hz |-> freq_hz, amp_vpp |-> amp_vpp,
     wave |-> "Sine", off_v |-> Fin(0), ch |-> 1]

(***************************************************************************)
(* Bounds and input sets of the helper calls.                              *)
(***************************************************************************)
MaxLen == 4

Amps == {Fin(-2), Fin(0), Fin(1), Fin(2), Fin(3), NaN, PInf, NInf}

AmpSeqs == UNION {[1..n -> Amps] : n \in 0..MaxLen}

DriverIdle ==
    /\ fn = "none"
    /\ args = <<>>
    /\ pc = "idle"
    /\ pending = NoExc
    /\ raw_rows = <<>>
    /\ knees = NoKnees
    /\ gen_calls = <<>>
    /\ scope_cmds = <<>>
    /\ csv = NoFile
    /\ log = <<>>
    /\ result = EmptyResult
    /\ outcome = Running

(***************************************************************************)
(* Helper specification: _monotonic_envelope on any sequence and index.    *)
(***************************************************************************)
InitEnvelope ==
    /\ \E values \in AmpSeqs, ref_index \in -1..MaxLen :
          call = [f |-> "_monotonic_envelope", values |-> values,
                  ref_index |-> ref_index, done |-> FALSE, ret |-> <<>>]
    /\ DriverIdle

CallEnvelope ==
    /\ call.f = "_monotonic_envelope"
    /\ ~call.done
    /\ call' = [call EXCEPT !.done = TRUE,
                            !.ret = _monotonic_envelope(call.values, call.ref_index)]
    /\ UNCHANGED driver_vars

NextEnvelope == CallEnvelope

SpecEnvelope == InitEnvelope /\ [][NextEnvelope]_vars

(***************************************************************************)
(* Helper specification: _clean_amplitudes on any sequence.                *)
(***************************************************************************)
InitClean ==
    /\ \E amps \in AmpSeqs :
          call = [f |-> "_clean_amplitudes", amps |-> amps, done |-> FALSE, ret |-> <<>>]
    /\ DriverIdle

CallClean ==
    /\ call.f = "_clean_amplitudes"
    /\ ~call.done
    /\ call' = [call EXCEPT !.done = TRUE, !.ret = _clean_amplitudes(call.amps)]
    /\ UNCHANGED driver_vars

NextClean == CallClean

SpecClean == InitClean /\ [][NextClean]_vars

(***************************************************************************)
(* The sweep drivers.  Bounds and argument sets.                           *)
(***************************************************************************)
MaxPoints == 3

Curves == {[k |-> "curve", ratio |-> 2, gain |-> 2]}

DefaultFilterWindow == 2
DefaultFilterFactor == 2
DefaultFilterMinPercent == 2
DefaultSmoothWindow == 5

CommonArgs ==
    [points : 1..MaxPoints, amp_vpp : {Fin(1), Fin(0), Fin(-1), NaN, PInf}, dwell_s : {Fin(0), Fin(-1), NaN, PInf},
     calibrate_to_vpp : {None, Fin(2)}, calibration_curve : {NoCurve} \cup Curves,
     fy_port : {NoneStr, "COM3"}, fy_proto : {"FY ASCII 9600"},
     output : {NoneStr, "out.csv"}]

ThdOnlyArgs ==
    [post_freq_hz : {Fin(1000), Fin(1234)}, post_seconds_per_div : {None, Fin(1)},
     filter_spikes : BOOLEAN, filter_window : {DefaultFilterWindow},
     filter_factor : {DefaultFilterFactor}, filter_min_percent : {Fin(DefaultFilterMinPercent)}]

KneeOnlyArgs ==
    [knee_drop_db : {Fin(3), Fin(6), Fin(0), NaN}, knee_ref_mode : {"max", "freq"},
     knee_ref_hz : {Fin(2)}, smoothing : {"median", "MEAN", "none", NoneStr, "bogus"},
     smooth_window : {DefaultSmoothWindow}, enforce_monotonic : BOOLEAN]

ThdArgs == {c @@ t : c \in CommonArgs, t \in ThdOnlyArgs}

KneeArgs == {c @@ t : c \in CommonArgs, t \in KneeOnlyArgs}

\* what one point can measure: (vrms, pkpk, thd_ratio, thd_percent)
ThdMeas ==
    {[vr |-> Fin(1), pk |-> Fin(2), thd_ratio |-> Fin(t), thd_percent |-> Fin(t)] : t \in {1, 2, 9}}
    \cup {[vr |-> NaN, pk |-> NaN, thd_ratio |-> NaN, thd_percent |-> NaN]}

KneeMeas ==
    {[vr |-> Fin(1), pk |-> Fin(p), thd_ratio |-> NaN, thd_percent |-> NaN] : p \in {1, 3, 4}}
    \cup {[vr |-> NaN, pk |-> NaN, thd_ratio |-> NaN, thd_percent |-> NaN]}

\* the failures the instruments can raise
ApplyError == [type |-> "RuntimeError", msg |-> "link lost"]

CaptureError == [type |-> "TekError", msg |-> "Failed to open scope resource"]

ResumeError == [type |-> "VisaIOError", msg |-> "open_resource failed"]

InitSweep ==
    /\ call = [f |-> "none"]
    /\ \E f \in {"thd_sweep", "knee_sweep"} :
          /\ fn = f
          /\ args \in (IF f = "thd_sweep" THEN ThdArgs ELSE KneeArgs)
    /\ pc = "start"
    /\ pending = NoExc
    /\ raw_rows = <<>>
    /\ knees = NoKnees
    /\ gen_calls = <<>>
    /\ scope_cmds = <<>>
    /\ csv = NoFile
    /\ log = <<>>
    /\ result = EmptyResult
    /\ outcome = Running

Raise(exc) ==
    /\ outcome' = [kind |-> "raise", exc |-> exc]
    /\ pc' = "done"

(***************************************************************************)
(* Validation and setup, up to the call of sweep_audio_kpis.               *)
(***************************************************************************)
\* mutant: the generator is set up before the arguments are checked
ThdValidate_apply_first ==
    /\ fn = "thd_sweep"
    /\ pc = "start"
    /\ gen_calls' = Append(gen_calls, issued(_fy_apply(args, Fin(1), args.amp_vpp), TRUE))
    /\ IF thd_validation(args) # "ok"
       THEN Raise(ValueError(thd_validation(args)))
       ELSE pc' = "measure" /\ UNCHANGED outcome
    /\ UNCHANGED <<call, fn, args, pending, raw_rows, knees, scope_cmds, csv, log, result>>

ThdValidate ==
    /\ fn = "thd_sweep"
    /\ pc = "start"
    /\ IF thd_validation(args) # "ok"
       THEN Raise(ValueError(thd_validation(args)))
       ELSE pc' = "measure" /\ UNCHANGED outcome
    /\ UNCHANGED <<call, fn, args, pending, raw_rows, knees, gen_calls, scope_cmds, csv, log, result>>

KneeValidate ==
    /\ fn = "knee_sweep"
    /\ pc = "start"
    /\ IF knee_validation(args) # "ok"
       THEN Raise(ValueError(knee_validation(args)))
       ELSE pc' = "measure" /\ UNCHANGED outcome
    /\ UNCHANGED <<call, fn, args, pending, raw_rows, knees, gen_calls, scope_cmds, csv, log, result>>

(***************************************************************************)
(* sweep_audio_kpis (amp_benchkit.automation): for each frequency apply    *)
(* the generator setting, capture and measure; failures of the injected    *)
(* callables are not caught.                                               *)
(***************************************************************************)
freqs == build_freq_points(args.points)

point_amp(a, freq) == IF a.calibrate_to_vpp # None THEN _amp_strategy(a, freq) ELSE sweep_amp(a)

point_call == _fy_apply(args, freqs[Len(raw_rows) + 1], point_amp(args, freqs[Len(raw_rows) + 1]))

AtPoint == pc = "measure" /\ Len(raw_rows) < args.points

MeasurePoint ==
    /\ AtPoint
    /\ gen_calls' = Append(gen_calls, issued(point_call, TRUE))
    /\ scope_cmds' = Append(scope_cmds, [cmd |-> "capture", ok |-> TRUE])
    /\ \E m \in (IF fn = "thd_sweep" THEN ThdMeas ELSE KneeMeas) :
          raw_rows' = Append(raw_rows, [freq |-> freqs[Len(raw_rows) + 1]] @@ m)
    /\ UNCHANGED <<call, fn, args, pc, pending, knees, csv, log, result, outcome>>

ApplyFails ==
    /\ AtPoint
    /\ gen_calls' = Append(gen_calls, issued(point_call, FALSE))
    /\ pending' = ApplyError
    /\ pc' = "helper_raised"
    /\ UNCHANGED <<call, fn, args, raw_rows, knees, scope_cmds, csv, log, result, outcome>>

CaptureFails ==
    /\ AtPoint
    /\ gen_calls' = Append(gen_calls, issued(point_call, TRUE))
    /\ scope_cmds' = Append(scope_cmds, [cmd |-> "capture", ok |-> FALSE])
    /\ pending' = CaptureError
    /\ pc' = "helper_raised"
    /\ UNCHANGED <<call, fn, args, raw_rows, knees, csv, log, result, outcome>>

\* defaults of sweep_audio_kpis's knee_drop_db, knee_ref_mode, knee_ref_hz
KpiDefaultDropDb == 3
KpiDefaultRefHz == 1000
KpiDefaultRefMode == "max"

\* the knee keywords knee_sweep passes to sweep_audio_kpis: none of them, so
\* the helper's defaults apply
knee_kwargs(a) ==
    [knee_drop_db |-> Fin(KpiDefaultDropDb), knee_ref_mode |-> KpiDefaultRefMode,
     knee_ref_hz |-> Fin(KpiDefaultRefHz)]

pk_series == [i \in 1..Len(raw_rows) |-> raw_rows[i].pk]

HelperReturn ==
    /\ pc = "measure"
    /\ Len(raw_rows) = args.points
    /\ knees' = IF fn = "knee_sweep"
                THEN _knee_detector(args, freqs, pk_series, knee_kwargs(args).knee_ref_mode,
                                    knee_kwargs(args).knee_ref_hz, knee_kwargs(args).knee_drop_db)
                ELSE NoKnees
    /\ pc' = "post"
    /\ UNCHANGED <<call, fn, args, pending, raw_rows, gen_calls, scope_cmds, csv, log, result, outcome>>

\* mutant: the driver swallows the failure and carries on with the rows so far
HelperRaised_swallowed ==
    /\ pc = "helper_raised"
    /\ pc' = "post"
    /\ UNCHANGED <<call, fn, args, pending, raw_rows, knees, gen_calls, scope_cmds, csv, log, result, outcome>>

\* the call of sweep_audio_kpis has no handler: the exception leaves the driver
\* mutant: the cleanup runs after a failed measurement, as in a finally block
HelperRaised_then_cleanup ==
    /\ pc = "helper_raised"
    /\ pc' = "resume"
    /\ UNCHANGED <<call, fn, args, pending, raw_rows, knees, gen_calls, scope_cmds, csv, log, result, outcome>>

HelperRaised ==
    /\ pc = "helper_raised"
    /\ Raise(pending)
    /\ UNCHANGED <<call, fn, args, pending, raw_rows, knees, gen_calls, scope_cmds, csv, log, result>>

(***************************************************************************)
(* After the measurement loop: calibration, spike filter or relative dB,   *)
(* and the CSV file.                                                       *)
(***************************************************************************)
\* mutant: the calibration curve is not applied
calibrated_skipped(a, freq, value) == value

calibrated(a, freq, value) ==
    IF a.calibration_curve # NoCurve /\ isfinite(value)
    THEN curve_apply(a.calibration_curve, freq, value)
    ELSE value

thd_rows(a, raw) ==
    [i \in 1..Len(raw) |->
        [freq |-> raw[i].freq,
         vr |-> calibrated(a, raw[i].freq, raw[i].vr),
         pk |-> calibrated(a, raw[i].freq, raw[i].pk),
         thd_percent |-> raw[i].thd_percent]]

\* mutant: the spike filter runs whatever filter_spikes says
thd_filtered_always(a, raw) ==
    IF thd_rows(a, raw) # <<>>
    THEN _filter_spikes(thd_rows(a, raw), a.filter_window, a.filter_factor, a.filter_min_percent)
    ELSE [rows |-> thd_rows(a, raw), suppressed |-> <<>>]

thd_filtered(a, raw) ==
    IF a.filter_spikes /\ thd_rows(a, raw) # <<>>
    THEN _filter_spikes(thd_rows(a, raw), a.filter_window, a.filter_factor, a.filter_min_percent)
    ELSE [rows |-> thd_rows(a, raw), suppressed |-> <<>>]

write_csv(output, header, rows) ==
    IF output \notin {NoneStr, ""}
    THEN [exists |-> TRUE, header |-> header, lines |-> rows]
    ELSE csv

out_path(output) == IF output \notin {NoneStr, ""} THEN output ELSE NoneStr

\* mutant: the CSV gets the rows as they were before the spike filter
ThdPostProcess_csv_unfiltered ==
    /\ fn = "thd_sweep"
    /\ pc = "post"
    /\ result' = [rows |-> thd_filtered(args, raw_rows).rows,
                  suppressed |-> thd_filtered(args, raw_rows).suppressed,
                  out_path |-> out_path(args.output),
                  knees |-> NoKnees, ref_db |-> NaN, target_db |-> NaN]
    /\ csv' = write_csv(args.output, <<"freq_hz", "vrms", "pkpk", "thd_percent">>,
                        thd_rows(args, raw_rows))
    /\ pc' = "resume"
    /\ UNCHANGED <<call, fn, args, pending, raw_rows, knees, gen_calls, scope_cmds, log, outcome>>

ThdPostProcess ==
    /\ fn = "thd_sweep"
    /\ pc = "post"
    /\ result' = [rows |-> thd_filtered(args, raw_rows).rows,
                  suppressed |-> thd_filtered(args, raw_rows).suppressed,
                  out_path |-> out_path(args.output),
                  knees |-> NoKnees, ref_db |-> NaN, target_db |-> NaN]
    /\ csv' = write_csv(args.output, <<"freq_hz", "vrms", "pkpk", "thd_percent">>,
                        thd_filtered(args, raw_rows).rows)
    /\ pc' = "resume"
    /\ UNCHANGED <<call, fn, args, pending, raw_rows, knees, gen_calls, scope_cmds, log, outcome>>

knee_ref_db(kn) == IF kn.found THEN kn.ref_db ELSE NaN

knee_target_db(a, kn) == IF kn.found THEN SubF(kn.ref_db, a.knee_drop_db) ELSE NaN

rel_db(kn, pk) ==
    IF kn.found /\ isfinite(pk) /\ Positive(pk) /\ isfinite(knee_ref_db(kn))
    THEN SubF(Fin(db20log10(pk)), knee_ref_db(kn))
    ELSE NInf

\* mutant: the relative level is taken from the Vpp as measured, before calibration
knee_rows_rel_db_uncalibrated(a, raw, kn) ==
    [i \in 1..Len(raw) |->
        [freq |-> raw[i].freq,
         vr |-> calibrated(a, raw[i].freq, raw[i].vr),
         pk |-> calibrated(a, raw[i].freq, raw[i].pk),
         rel_db |-> rel_db(kn, raw[i].pk)]]

knee_rows(a, raw, kn) ==
    [i \in 1..Len(raw) |->
        [freq |-> raw[i].freq,
         vr |-> calibrated(a, raw[i].freq, raw[i].vr),
         pk |-> calibrated(a, raw[i].freq, raw[i].pk),
         rel_db |-> rel_db(kn, calibrated(a, raw[i].freq, raw[i].pk))]]

KneePostProcess ==
    /\ fn = "knee_sweep"
    /\ pc = "post"
    /\ result' = [rows |-> knee_rows(args, raw_rows, knees),
                  suppressed |-> <<>>,
                  out_path |-> out_path(args.output),
                  knees |-> knees,
                  ref_db |-> knee_ref_db(knees),
                  target_db |-> knee_target_db(args, knees)]
    /\ csv' = write_csv(args.output, <<"freq_hz", "vrms", "pkpk", "rel_db">>,
                        knee_rows(args, raw_rows, knees))
    /\ pc' = "resume"
    /\ UNCHANGED <<call, fn, args, pending, raw_rows, knees, gen_calls, scope_cmds, log, outcome>>

(***************************************************************************)
(* Cleanup: resume acquisition, restore the generator idle tone, restore   *)
(* the timebase (thd_sweep only), return.                                  *)
(***************************************************************************)
\* scope_resume_run(visa_resource) succeeds
ResumeOk(f) ==
    /\ fn = f
    /\ pc = "resume"
    /\ scope_cmds' = Append(scope_cmds, [cmd |-> "resume", ok |-> TRUE])
    /\ pc' = "restore"
    /\ UNCHANGED <<call, fn, args, pending, raw_rows, knees, gen_calls, csv, log, result, outcome>>

\* scope_resume_run opens the VISA resource outside any handler and the
\* drivers call it outside any handler: a failure leaves the driver
ResumeRaises(f) ==
    /\ fn = f
    /\ pc = "resume"
    /\ scope_cmds' = Append(scope_cmds, [cmd |-> "resume", ok |-> FALSE])
    /\ Raise(ResumeError)
    /\ UNCHANGED <<call, fn, args, pending, raw_rows, knees, gen_calls, csv, log, result>>

ThdResume == ResumeOk("thd_sweep")

ThdResumeRaises == ResumeRaises("thd_sweep")

KneeResume == ResumeOk("knee_sweep")

KneeResumeRaises == ResumeRaises("knee_sweep")

reset_warning(a, freq_hz, exc) ==
    [level |-> "WARNING", logger |-> "amp_benchkit.sweeps", msg |-> "FY reset failed",
     freq_hz |-> freq_hz, amp_vpp |-> a.amp_vpp,
     port |-> IF a.fy_port \in {NoneStr, ""} THEN "<auto>" ELSE a.fy_port,
     proto |-> a.fy_proto, exc |-> exc]

thd_restore_call(a) == _fy_apply(a, a.post_freq_hz, a.amp_vpp)

\* the idle-tone call succeeds
ThdRestoreGen ==
    /\ fn = "thd_sweep"
    /\ pc = "restore"
    /\ gen_calls' = Append(gen_calls, issued(thd_restore_call(args), TRUE))
    /\ pc' = "timebase"
    /\ UNCHANGED <<call, fn, args, pending, raw_rows, knees, scope_cmds, csv, log, result, outcome>>

\* mutant: the failure of the idle-tone call leaves the driver
ThdRestoreGenFails_propagates ==
    /\ fn = "thd_sweep"
    /\ pc = "restore"
    /\ gen_calls' = Append(gen_calls, issued(thd_restore_call(args), FALSE))
    /\ Raise(ApplyError)
    /\ UNCHANGED <<call, fn, args, pending, raw_rows, knees, scope_cmds, csv, log, result>>

\* the idle-tone call raises: caught and logged
ThdRestoreGenFails ==
    /\ fn = "thd_sweep"
    /\ pc = "restore"
    /\ gen_calls' = Append(gen_calls, issued(thd_restore_call(args), FALSE))
    /\ log' = Append(log, reset_warning(args, args.post_freq_hz, ApplyError))
    /\ pc' = "timebase"
    /\ UNCHANGED <<call, fn, args, pending, raw_rows, knees, scope_cmds, csv, result, outcome>>

\* scope_configure_timebase under suppress(Exception); ok tells whether it raised
\* mutant: the timebase is restored whatever post_seconds_per_div is
ThdTimebase_unconditional ==
    /\ fn = "thd_sweep"
    /\ pc = "timebase"
    /\ \E ok \in BOOLEAN :
          scope_cmds' = Append(scope_cmds, [cmd |-> "timebase", ok |-> ok])
    /\ pc' = "return"
    /\ UNCHANGED <<call, fn, args, pending, raw_rows, knees, gen_calls, csv, log, result, outcome>>

ThdTimebase ==
    /\ fn = "thd_sweep"
    /\ pc = "timebase"
    /\ IF args.post_seconds_per_div # None
       THEN \E ok \in BOOLEAN :
               scope_cmds' = Append(scope_cmds, [cmd |-> "timebase", ok |-> ok])
       ELSE UNCHANGED scope_cmds
    /\ pc' = "return"
    /\ UNCHANGED <<call, fn, args, pending, raw_rows, knees, gen_calls, csv, log, result, outcome>>

ThdReturn ==
    /\ fn = "thd_sweep"
    /\ pc = "return"
    /\ outcome' = [kind |-> "return", exc |-> NoExc]
    /\ pc' = "done"
    /\ UNCHANGED <<call, fn, args, pending, raw_rows, knees, gen_calls, scope_cmds, csv, log, result>>

knee_restore_call(a) == _fy_apply(a, Fin(1000), a.amp_vpp)

KneeRestoreGen ==
    /\ fn = "knee_sweep"
    /\ pc = "restore"
    /\ gen_calls' = Append(gen_calls, issued(knee_restore_call(args), TRUE))
    /\ pc' = "return"
    /\ UNCHANGED <<call, fn, args, pending, raw_rows, knees, scope_cmds, csv, log, result, outcome>>

KneeRestoreGenFails ==
    /\ fn = "knee_sweep"
    /\ pc = "restore"
    /\ gen_calls' = Append(gen_calls, issued(knee_restore_call(args), FALSE))
    /\ log' = Append(log, reset_warning(args, Fin(1000), ApplyError))
    /\ pc' = "return"
    /\ UNCHANGED <<call, fn, args, pending, raw_rows, knees, scope_cmds, csv, result, outcome>>

KneeReturn ==
    /\ fn = "knee_sweep"
    /\ pc = "return"
    /\ outcome' = [kind |-> "return", exc |-> NoExc]
    /\ pc' = "done"
    /\ UNCHANGED <<call, fn, args, pending, raw_rows, knees, gen_calls, scope_cmds, csv, log, result>>

NextSweep ==
    \/ ThdValidate
    \/ KneeValidate
    \/ MeasurePoint
    \/ ApplyFails
    \/ CaptureFails
    \/ HelperReturn
    \/ HelperRaised
    \/ ThdPostProcess
    \/ KneePostProcess
    \/ ThdResume
    \/ ThdResumeRaises
    \/ KneeResume
    \/ KneeResumeRaises
    \/ ThdRestoreGen
    \/ ThdRestoreGenFails
    \/ ThdTimebase
    \/ ThdReturn
    \/ KneeRestoreGen
    \/ KneeRestoreGenFails
    \/ KneeReturn

Spec == InitSweep /\ [][NextSweep]_vars

(***************************************************************************)
(* C1: for any sequence of finite positive values and any reference index  *)
(* inside it, _monotonic_envelope returns a sequence that is               *)
(* non-decreasing on [0, ref] and non-increasing on [ref, end].            *)
(***************************************************************************)
AllFinitePositive(s) == \A i \in 1..Len(s) : isfinite(s[i]) /\ Positive(s[i])

NonDecreasingOn(s, a, b) == \A i \in a..(b - 1) : Le(s[i], s[i + 1])

NonIncreasingOn(s, a, b) == \A i \in a..(b - 1) : Le(s[i + 1], s[i])

EnvelopeCase ==
    /\ call.f = "_monotonic_envelope"
    /\ call.done
    /\ AllFinitePositive(call.values)
    /\ call.ref_index \in 0..(Len(call.values) - 1)

C1_EnvelopeMonotonic ==
    EnvelopeCase =>
        /\ Len(call.ret) = Len(call.values)
        /\ NonDecreasingOn(call.ret, 1, call.ref_index + 1)
        /\ NonIncreasingOn(call.ret, call.ref_index + 1, Len(call.ret))

(***************************************************************************)
(* C4: _clean_amplitudes replaces every invalid entry with the last valid  *)
(* input magnitude seen so far, so that [1.0, NaN, -2.0, 0.0] gives        *)
(* [1.0, 1.0, 2.0, 2.0].                                                   *)
(***************************************************************************)
CarryExample == <<Fin(1), NaN, Fin(-2), Fin(0)>>

CleanCase == call.f = "_clean_amplitudes" /\ call.done

\* C4 as stated: the negative entry -2.0 counts as the magnitude 2.0.
C4_CarryForwardMagnitude ==
    (CleanCase /\ call.amps = CarryExample) =>
        call.ret = <<Fin(1), Fin(1), Fin(2), Fin(2)>>

LastValidUpTo(amps, i) ==
    LET S == {j \in 1..i : isfinite(amps[j]) /\ Gt(amps[j], Fin(0))}
    IN IF S = {} THEN Tiny ELSE amps[MaxOf(S)]

\* C4 amended: an entry is valid only if it is finite and > 0; every other
\* entry (negative ones included) takes the last valid value seen so far, so
\* [1.0, NaN, -2.0, 0.0] gives [1.0, 1.0, 1.0, 1.0].
C4_CarryForwardValid ==
    CleanCase =>
        /\ Len(call.ret) = Len(call.amps)
        /\ \A i \in 1..Len(call.amps) : call.ret[i] = LastValidUpTo(call.amps, i)
        /\ call.amps = CarryExample => call.ret = <<Fin(1), Fin(1), Fin(1), Fin(1)>>

C4_Witness ==
    /\ CleanCase
    /\ call.amps = CarryExample
    /\ call.ret = <<Fin(1), Fin(1), Fin(1), Fin(1)>>

(***************************************************************************)
(* C2: in thd_sweep a failure of any post-sweep cleanup step (resuming     *)
(* acquisition, restoring the generator idle tone, restoring the timebase) *)
(* never propagates: once the measurement loop has completed, thd_sweep    *)
(* returns.                                                                *)
(***************************************************************************)
LoopCompleted == pending = NoExc /\ Len(raw_rows) = args.points

C2_CleanupNeverPropagates ==
    (fn = "thd_sweep" /\ pc = "done" /\ LoopCompleted) => outcome.kind = "return"

(***************************************************************************)
(* C3: the knees returned by knee_sweep are detected with the caller's     *)
(* knee_drop_db, knee_ref_mode and knee_ref_hz, so that they cross         *)
(* ref_db - knee_drop_db, the target_db of the same record.                *)
(***************************************************************************)
C3_KneesUseCallerParameters ==
    (fn = "knee_sweep" /\ outcome.kind = "return") =>
        /\ result.knees = _knee_detector(args, freqs, pk_series, args.knee_ref_mode,
                                         args.knee_ref_hz, args.knee_drop_db)
        /\ result.knees.found => result.target_db = SubF(result.knees.ref_db, args.knee_drop_db)

(***************************************************************************)
(* C5: after a thd_sweep whose measurement loop completes, exactly one     *)
(* generator call follows the per-point calls; it is the last generator    *)
(* call and uses post_freq_hz, the caller's amp_vpp, sine wave, zero       *)
(* offset, and the caller's port and protocol.                             *)
(***************************************************************************)
IsIdleToneCall(c) ==
    /\ c.freq_hz = args.post_freq_hz
    /\ c.amp_vpp = args.amp_vpp
    /\ c.wave = "Sine"
    /\ c.off_v = Fin(0)
    /\ c.port = args.fy_port
    /\ c.proto = args.fy_proto

C5_OneIdleToneCallLast ==
    (fn = "thd_sweep" /\ pc = "done" /\ LoopCompleted) =>
        /\ Len(gen_calls) = args.points + 1
        /\ IsIdleToneCall(gen_calls[Len(gen_calls)])

(***************************************************************************)
(* C6: if a capture or generator-apply call fails during the per-point     *)
(* loop of thd_sweep or knee_sweep, that same exception reaches the caller *)
(* and no CSV file, not even a partial one, is written.                    *)
(***************************************************************************)
C6_MeasurementFailurePropagates ==
    (pending # NoExc) =>
        /\ csv = NoFile
        /\ outcome.kind # "return"
        /\ pc = "done" => outcome = [kind |-> "raise", exc |-> pending]

C6_Witness ==
    /\ pc = "done"
    /\ pending = CaptureError
    /\ Len(raw_rows) >= 1
    /\ args.output = "out.csv"
    /\ outcome = [kind |-> "raise", exc |-> CaptureError]
    /\ csv = NoFile

(***************************************************************************)
(* C7: thd_sweep raises ValueError when points < 2, when amp_vpp is        *)
(* non-finite or <= 0, when dwell_s is non-finite or negative, and when    *)
(* calibrate_to_vpp is given without a calibration_curve; otherwise it     *)
(* raises no validation error.                                             *)
(***************************************************************************)
RaisedValueError == outcome.kind = "raise" /\ outcome.exc.type = "ValueError"

CommonBadArgs ==
    \/ args.points < 2
    \/ args.amp_vpp.k # "fin" \/ args.amp_vpp.v <= 0
    \/ args.dwell_s.k # "fin" \/ args.dwell_s.v < 0
    \/ (args.calibrate_to_vpp.k # "none" /\ args.calibration_curve.k = "none")

C7_ThdValidation ==
    (fn = "thd_sweep" /\ pc # "start") => (CommonBadArgs <=> RaisedValueError)

C7_Witness ==
    /\ fn = "thd_sweep"
    /\ RaisedValueError
    /\ args.points = 1

(***************************************************************************)
(* C8: knee_sweep raises ValueError under every condition for which        *)
(* thd_sweep does, and also when knee_drop_db is non-finite or <= 0 and    *)
(* when smoothing is not one of "median", "mean", "none".                  *)
(***************************************************************************)
BadKneeDrop == args.knee_drop_db.k # "fin" \/ args.knee_drop_db.v <= 0

\* C8 as stated: any other smoothing string is rejected.
C8_KneeValidationExactNames ==
    (fn = "knee_sweep" /\ pc # "start") =>
        ((CommonBadArgs \/ BadKneeDrop \/ args.smoothing \notin {"median", "mean", "none"})
            => RaisedValueError)

\* the names knee_sweep accepts: the three modes in any letter case, and
\* None or the empty string, which stand for "none"
AcceptedSmoothing == {"median", "mean", "none", "MEDIAN", "MEAN", "NONE", NoneStr, ""}

\* C8 amended: smoothing is rejected when, with None or the empty string read
\* as "none" and the name lower-cased, it is not one of the three modes.
C8_KneeValidation ==
    (fn = "knee_sweep" /\ pc # "start") =>
        ((CommonBadArgs \/ BadKneeDrop \/ args.smoothing \notin AcceptedSmoothing)
            <=> RaisedValueError)

C8_Witness ==
    /\ fn = "knee_sweep"
    /\ RaisedValueError
    /\ ~CommonBadArgs
    /\ args.knee_drop_db = Fin(0)

(***************************************************************************)
(* C9: whenever thd_sweep or knee_sweep rejects its arguments with a       *)
(* ValueError, no generator command, no oscilloscope command and no file   *)
(* write has been issued.                                                  *)
(***************************************************************************)
C9_ValidationBeforeIO ==
    RaisedValueError => (gen_calls = <<>> /\ scope_cmds = <<>> /\ csv = NoFile)

C9_Witness ==
    /\ fn = "knee_sweep"
    /\ RaisedValueError
    /\ outcome.exc.msg = "smoothing must be one of 'median', 'mean', or 'none'"
    /\ args.output = "out.csv"
    /\ gen_calls = <<>>

(***************************************************************************)
(* C10: if the generator restore call of thd_sweep raises, the exception   *)
(* is caught, a warning with the restore frequency, amplitude, port and    *)
(* protocol is logged on amp_benchkit.sweeps, and thd_sweep returns        *)
(* normally with the rows it measured.                                     *)
(***************************************************************************)
RestoreRaised ==
    /\ fn = "thd_sweep"
    /\ LoopCompleted
    /\ Len(gen_calls) = args.points + 1
    /\ ~gen_calls[args.points + 1].ok

C10_RestoreFailureLogged ==
    RestoreRaised =>
        /\ outcome.kind # "raise"
        /\ pc = "done" =>
              /\ outcome.kind = "return"
              /\ Len(result.rows) = args.points
              /\ \A i \in 1..args.points : result.rows[i].freq = raw_rows[i].freq
        /\ Len(log) = 1
        /\ log[1].level = "WARNING"
        /\ log[1].logger = "amp_benchkit.sweeps"
        /\ log[1].freq_hz = args.post_freq_hz
        /\ log[1].amp_vpp = args.amp_vpp
        /\ log[1].port = (IF args.fy_port = NoneStr THEN "<auto>" ELSE args.fy_port)
        /\ log[1].proto = args.fy_proto

C10_Witness ==
    /\ RestoreRaised
    /\ pc = "done"
    /\ outcome.kind = "return"
    /\ Len(log) = 1
    /\ args.post_freq_hz = Fin(1234)

(***************************************************************************)
(* Helper specification: knee_sweep's _knee_detector closure on any        *)
(* amplitude series the measurement helper can hand it, next to the        *)
(* sweep drivers themselves.                                               *)
(***************************************************************************)
DetectorSettings ==
    [smoothing : {"median", "MEAN", "none"}, smooth_window : {1, 3},
     enforce_monotonic : BOOLEAN]

InitDetector ==
    /\ \E amps \in UNION {[1..n -> {Fin(0), Fin(1), Fin(3), Fin(4), NaN}] : n \in 0..MaxLen},
          a \in DetectorSettings, ref_mode \in {"max", "freq"} :
          call = [f |-> "_knee_detector", a |-> a,
                  freq_list |-> build_freq_points(Len(amps)), amps |-> amps,
                  ref_mode |-> ref_mode, ref_hz |-> Fin(2), drop_db |-> Fin(3),
                  done |-> FALSE, ret |-> NoKnees]
    /\ DriverIdle

CallDetector ==
    /\ call.f = "_knee_detector"
    /\ ~call.done
    /\ call' = [call EXCEPT !.done = TRUE,
                            !.ret = _knee_detector(call.a, call.freq_list, call.amps,
                                                   call.ref_mode, call.ref_hz, call.drop_db)]
    /\ UNCHANGED driver_vars

NextDetector == CallDetector \/ NextSweep

SpecDetector == (InitDetector \/ InitSweep) /\ [][NextDetector]_vars

(***************************************************************************)
(* C11: the knees knee_sweep reports are find_knees applied to the series  *)
(* obtained from the measured amplitudes in three stages: the sanitizer    *)
(* always; the smoother only when the smoothing mode is not "none", the    *)
(* window exceeds 1 and there is more than one sample; the envelope only   *)
(* when enforce_monotonic is set and there are more than two samples,      *)
(* around the reference index selected on the smoothed series.  A stage    *)
(* whose condition is false hands its input on unchanged.                  *)
(***************************************************************************)
SmootherApplies(a, amps) ==
    smoothing_mode(a) # "none" /\ a.smooth_window > 1 /\ Len(amps) > 1

EnvelopeApplies(a, amps) == a.enforce_monotonic /\ Len(amps) > 2

Sanitized(amps) == _clean_amplitudes(amps)

Smoothed(a, amps) ==
    IF SmootherApplies(a, amps)
    THEN _smooth_series(Sanitized(amps), a.smooth_window, smoothing_mode(a))
    ELSE Sanitized(amps)

Processed(a, freq_list, amps, ref_mode, ref_hz) ==
    IF EnvelopeApplies(a, amps)
    THEN _monotonic_envelope(Smoothed(a, amps),
                             _reference_index(freq_list, Smoothed(a, amps), ref_mode, ref_hz))
    ELSE Smoothed(a, amps)

DetectorReturned == call.f = "_knee_detector" /\ call.done

KneesComputed ==
    /\ fn = "knee_sweep"
    /\ pc \in {"post", "resume", "restore", "return", "done"}
    /\ Len(raw_rows) = args.points

C11_KneesFromProcessedSeries ==
    /\ DetectorReturned =>
          call.ret = find_knees(call.freq_list,
                                Processed(call.a, call.freq_list, call.amps,
                                          call.ref_mode, call.ref_hz),
                                call.ref_mode, call.ref_hz, call.drop_db)
    /\ KneesComputed =>
          /\ knees = find_knees(freqs,
                                Processed(args, freqs, pk_series,
                                          knee_kwargs(args).knee_ref_mode,
                                          knee_kwargs(args).knee_ref_hz),
                                knee_kwargs(args).knee_ref_mode,
                                knee_kwargs(args).knee_ref_hz,
                                knee_kwargs(args).knee_drop_db)
          /\ pc = "done" /\ outcome.kind = "return" => result.knees = knees

C11_Witness ==
    /\ DetectorReturned
    /\ SmootherApplies(call.a, call.amps)
    /\ EnvelopeApplies(call.a, call.amps)
    /\ Sanitized(call.amps) # call.amps
    /\ Smoothed(call.a, call.amps) # Sanitized(call.amps)
    /\ Processed(call.a, call.freq_list, call.amps, call.ref_mode, call.ref_hz)
          # Smoothed(call.a, call.amps)
    /\ call.ret.found

(***************************************************************************)
(* Helper specification: _filter_spikes on any rows, window, factor and    *)
(* floor.                                                                  *)
(***************************************************************************)
SpikeRows ==
    UNION {{[i \in 1..n |-> [freq |-> build_freq_points(n)[i], vr |-> Fin(i), pk |-> Fin(2 * i),
                             thd_percent |-> t[i]]] : t \in [1..n -> {Fin(1), Fin(2), Fin(3), Fin(9), NaN, PInf}]} : n \in 0..MaxLen}

InitSpikes ==
    /\ \E rows \in SpikeRows, window \in {0, 1, 2}, factor \in {1, 2},
          min_percent \in {Fin(2), Fin(5)} :
          call = [f |-> "_filter_spikes", rows |-> rows, window |-> window, factor |-> factor,
                  min_percent |-> min_percent, done |-> FALSE,
                  ret |-> [rows |-> <<>>, suppressed |-> <<>>]]
    /\ DriverIdle

CallFilterSpikes ==
    /\ call.f = "_filter_spikes"
    /\ ~call.done
    /\ call' = [call EXCEPT !.done = TRUE,
                            !.ret = _filter_spikes(call.rows, call.window, call.factor,
                                                   call.min_percent)]
    /\ UNCHANGED driver_vars

NextSpikes == CallFilterSpikes

SpecSpikes == InitSpikes /\ [][NextSpikes]_vars

NextThdFilter == CallFilterSpikes \/ NextSweep

SpecThdFilter == (InitSpikes \/ InitSweep) /\ [][NextThdFilter]_vars

(***************************************************************************)
(* C12: _filter_spikes replaces a row exactly when its own THD is finite,  *)
(* some other row within +/-window positions has a finite THD, and its THD *)
(* is strictly greater than max(min_percent, baseline * factor), baseline  *)
(* being the median of the finite input THD values of those neighbours     *)
(* (input values, also for neighbours that are replaced themselves).  A    *)
(* replaced row's THD becomes baseline; every other row keeps its THD.     *)
(***************************************************************************)
FiniteNeighbours(rows, i, window) ==
    {j \in 1..Len(rows) : /\ j # i
                          /\ j - i <= window
                          /\ i - j <= window
                          /\ isfinite(rows[j].thd_percent)}

\* the r-th smallest (from 0) THD among the rows in N, in model units
RankedThd(rows, N, r) ==
    LET j == CHOOSE x \in N :
                 /\ Cardinality({k \in N : rows[k].thd_percent.v < rows[x].thd_percent.v}) <= r
                 /\ Cardinality({k \in N : rows[k].thd_percent.v <= rows[x].thd_percent.v}) > r
    IN rows[j].thd_percent.v

Baseline(rows, i, window) ==
    LET N == FiniteNeighbours(rows, i, window)
        n == Cardinality(N)
    IN [k |-> "fin", v |-> (RankedThd(rows, N, (n - 1) \div 2) + RankedThd(rows, N, n \div 2)) \div 2,
        e |-> 0]

Replaced(rows, i, window, factor, min_percent) ==
    /\ isfinite(rows[i].thd_percent)
    /\ FiniteNeighbours(rows, i, window) # {}
    /\ rows[i].thd_percent.v > min_percent.v
    /\ rows[i].thd_percent.v > Baseline(rows, i, window).v * factor

SpikesReturned == call.f = "_filter_spikes" /\ call.done

C12_SpikeReplacement ==
    SpikesReturned =>
        /\ Len(call.ret.rows) = Len(call.rows)
        /\ \A i \in 1..Len(call.rows) :
              call.ret.rows[i].thd_percent =
                 IF Replaced(call.rows, i, call.window, call.factor, call.min_percent)
                 THEN Baseline(call.rows, i, call.window)
                 ELSE call.rows[i].thd_percent

\* two rows within each other's window are both replaced, each by a baseline
\* taken over the other's input THD
C12_Witness ==
    /\ SpikesReturned
    /\ \E i, j \in 1..Len(call.rows) :
          /\ i < j
          /\ j \in FiniteNeighbours(call.rows, i, call.window)
          /\ Replaced(call.rows, i, call.window, call.factor, call.min_percent)
          /\ Replaced(call.rows, j, call.window, call.factor, call.min_percent)
          /\ call.ret.rows[i].thd_percent # call.rows[i].thd_percent
          /\ call.ret.rows[j].thd_percent # call.rows[j].thd_percent
          /\ call.ret.rows[j].thd_percent # call.ret.rows[i].thd_percent
    /\ \E i \in 1..Len(call.rows) :
          /\ isfinite(call.rows[i].thd_percent)
          /\ FiniteNeighbours(call.rows, i, call.window) # {}
          /\ ~Replaced(call.rows, i, call.window, call.factor, call.min_percent)

(***************************************************************************)
(* C13: in _filter_spikes a row whose THD is exactly baseline * factor is  *)
(* not replaced, and a row whose THD is one unit above baseline * factor   *)
(* is replaced.                                                            *)
(***************************************************************************)
Suppressed(i) == \E m \in 1..Len(call.ret.suppressed) : call.ret.suppressed[m].freq = call.rows[i].freq

HasBaseline(i) ==
    /\ isfinite(call.rows[i].thd_percent)
    /\ FiniteNeighbours(call.rows, i, call.window) # {}

AtBoundary(i) ==
    /\ HasBaseline(i)
    /\ call.rows[i].thd_percent.v = Baseline(call.rows, i, call.window).v * call.factor

OneUnitAbove(i) ==
    /\ HasBaseline(i)
    /\ call.rows[i].thd_percent.v = Baseline(call.rows, i, call.window).v * call.factor + Fin(1).v

C13_ThresholdBoundary ==
    SpikesReturned =>
        \A i \in 1..Len(call.rows) :
            /\ AtBoundary(i) => ~Suppressed(i)
            /\ OneUnitAbove(i) => Suppressed(i)

(***************************************************************************)
(* C13 (amended): a row whose THD is exactly baseline * factor is not      *)
(* replaced; a row whose THD is one unit above baseline * factor is        *)
(* replaced when that THD also exceeds min_percent, and is kept otherwise. *)
(***************************************************************************)
C13_ThresholdBoundaryAboveFloor ==
    SpikesReturned =>
        \A i \in 1..Len(call.rows) :
            /\ AtBoundary(i) =>
                  /\ ~Suppressed(i)
                  /\ call.ret.rows[i].thd_percent = call.rows[i].thd_percent
            /\ OneUnitAbove(i) =>
                  IF Gt(call.rows[i].thd_percent, call.min_percent)
                  THEN /\ Suppressed(i)
                       /\ call.ret.rows[i].thd_percent = Baseline(call.rows, i, call.window)
                  ELSE /\ ~Suppressed(i)
                       /\ call.ret.rows[i].thd_percent = call.rows[i].thd_percent

C13_Witness ==
    /\ SpikesReturned
    /\ \E i \in 1..Len(call.rows) :
          /\ AtBoundary(i)
          /\ Gt(call.rows[i].thd_percent, call.min_percent)
          /\ ~Suppressed(i)
    /\ \E i \in 1..Len(call.rows) :
          /\ OneUnitAbove(i)
          /\ Gt(call.rows[i].thd_percent, call.min_percent)
          /\ Suppressed(i)
    /\ \E i \in 1..Len(call.rows) :
          /\ OneUnitAbove(i)
          /\ ~Gt(call.rows[i].thd_percent, call.min_percent)
          /\ ~Suppressed(i)

(***************************************************************************)
(* C14: _filter_spikes returns as many rows as it was given, in the same   *)
(* order, with frequency, Vrms and Vpp of every row unchanged; only the    *)
(* THD of a row can differ.                                                *)
(***************************************************************************)
C14_SpikeFilterFrame ==
    SpikesReturned =>
        /\ Len(call.ret.rows) = Len(call.rows)
        /\ \A i \in 1..Len(call.rows) :
              /\ i <= Len(call.ret.rows)
              /\ call.ret.rows[i].freq = call.rows[i].freq
              /\ call.ret.rows[i].vr = call.rows[i].vr
              /\ call.ret.rows[i].pk = call.rows[i].pk

C14_Witness ==
    /\ SpikesReturned
    /\ Len(call.rows) = MaxLen
    /\ Len(call.ret.suppressed) >= 2
    /\ \E i, j \in 1..Len(call.rows) :
          /\ i < j
          /\ call.ret.rows[i].thd_percent # call.rows[i].thd_percent
          /\ call.ret.rows[j].thd_percent = call.rows[j].thd_percent

(***************************************************************************)
(* C15: the suppression list of _filter_spikes holds exactly one record    *)
(* (freq, original THD, baseline) per replaced row and none for any other  *)
(* row, in ascending row order; thd_sweep with filter_spikes off returns   *)
(* an empty suppression list and every THD as measured.                    *)
(***************************************************************************)
ReplacedRows(rows, window, factor, min_percent) ==
    {i \in 1..Len(rows) : Replaced(rows, i, window, factor, min_percent)}

\* suppressed lists the rows of R, lowest row first
RecordsOf(rows, window, R, suppressed) ==
    /\ Len(suppressed) = Cardinality(R)
    /\ \A i \in R :
          suppressed[Cardinality({j \in R : j <= i})] =
             [freq |-> rows[i].freq, original |-> rows[i].thd_percent,
              baseline |-> Baseline(rows, i, window)]

ThdRowsComputed ==
    /\ fn = "thd_sweep"
    /\ pc \in {"resume", "restore", "timebase", "return", "done"}
    /\ Len(raw_rows) = args.points

C15_SuppressionList ==
    /\ SpikesReturned =>
          RecordsOf(call.rows, call.window,
                    ReplacedRows(call.rows, call.window, call.factor, call.min_percent),
                    call.ret.suppressed)
    /\ ThdRowsComputed /\ ~args.filter_spikes =>
          /\ result.suppressed = <<>>
          /\ Len(result.rows) = Len(raw_rows)
          /\ \A i \in 1..Len(raw_rows) : result.rows[i].thd_percent = raw_rows[i].thd_percent
    /\ ThdRowsComputed /\ args.filter_spikes =>
          RecordsOf(thd_rows(args, raw_rows), args.filter_window,
                    ReplacedRows(thd_rows(args, raw_rows), args.filter_window,
                                 args.filter_factor, args.filter_min_percent),
                    result.suppressed)

C15_Witness ==
    /\ SpikesReturned
    /\ Len(call.ret.suppressed) >= 2
    /\ Len(call.ret.suppressed) < Len(call.rows)
    /\ call.ret.suppressed[1].baseline # call.ret.suppressed[2].baseline

\* a spike is measured, filter_spikes is off, and thd_sweep returns it as measured
C15_WitnessFilterOff ==
    /\ ThdRowsComputed
    /\ ~args.filter_spikes
    /\ pc = "done"
    /\ outcome.kind = "return"
    /\ ReplacedRows(thd_rows(args, raw_rows), args.filter_window,
                    args.filter_factor, args.filter_min_percent) # {}

(***************************************************************************)
(* C16: for any input, _clean_amplitudes returns a list of the same length *)
(* whose elements are all finite and strictly positive; an entry that is   *)
(* finite and > 0 is kept as is, any other entry takes the most recently   *)
(* kept value, or 1e-12 when none was kept yet; a sequence of positive     *)
(* finite values comes back unchanged.                                     *)
(***************************************************************************)
C16_SanitizerPositiveFinite ==
    CleanCase =>
        /\ Len(call.ret) = Len(call.amps)
        /\ AllFinitePositive(call.ret)
        /\ \A i \in 1..Len(call.amps) :
              IF isfinite(call.amps[i]) /\ Gt(call.amps[i], Fin(0))
              THEN call.ret[i] = call.amps[i]
              ELSE call.ret[i] = (IF i = 1 THEN [k |-> "fin", v |-> 0, e |-> 60]
                                  ELSE call.ret[i - 1])
        /\ AllFinitePositive(call.amps) => call.ret = call.amps

\* a leading invalid entry takes 1e-12, a later one the value kept before it,
\* with NaN, an infinity, zero and a negative value all among the entries
C16_Witness ==
    /\ CleanCase
    /\ Len(call.amps) = MaxLen
    /\ ~isfinite(call.amps[1])
    /\ call.ret[1] = Tiny
    /\ isfinite(call.amps[2]) /\ Gt(call.amps[2], Fin(0))
    /\ call.amps[3] \in {Fin(0), Fin(-2)}
    /\ call.ret[3] = call.amps[2]
    /\ call.amps[4] \in {PInf, NInf, NaN}
    /\ call.ret[4] = call.amps[2]

(***************************************************************************)
(* Helper specification: _smooth_series on any sequence, window and mode.  *)
(***************************************************************************)
InitSmooth ==
    /\ \E values \in UNION {[1..n -> {Fin(-2), Fin(1), Fin(3), NaN, PInf}] : n \in 0..MaxLen},
          window \in {0, 1, 2, 3, 4, 5}, mode \in {"mean", "MEAN", "median", "bogus"} :
          call = [f |-> "_smooth_series", values |-> values, window |-> window, mode |-> mode,
                  done |-> FALSE, ret |-> <<>>]
    /\ DriverIdle

CallSmooth ==
    /\ call.f = "_smooth_series"
    /\ ~call.done
    /\ call' = [call EXCEPT !.done = TRUE,
                            !.ret = _smooth_series(call.values, call.window, call.mode)]
    /\ UNCHANGED driver_vars

NextSmooth == CallSmooth

SpecSmooth == InitSmooth /\ [][NextSmooth]_vars

(***************************************************************************)
(* C17: for a non-empty sequence and window > 1, _smooth_series returns a  *)
(* list of the same length whose element i is the reducer (mean if mode is *)
(* "mean", otherwise median) of the absolute values of the finite entries  *)
(* at positions i-h..i+h of the input extended by replicating its first    *)
(* and last element, h = w div 2, w the window raised by 1 if even; the    *)
(* element is NaN when no entry in the window is finite; an even window 2k *)
(* gives the same result as 2k + 1.                                        *)
(***************************************************************************)
SmoothCase == call.f = "_smooth_series" /\ call.done /\ call.values # <<>> /\ call.window > 1

OddWindow(window) == IF window % 2 = 0 THEN window + 1 ELSE window

\* the entry at position p of the input extended at both edges
Extended(values, p) ==
    IF p < 1 THEN values[1] ELSE IF p > Len(values) THEN values[Len(values)] ELSE values[p]

\* the positions i-h..i+h that hold a finite entry
FinitePositions(values, i, h) == {p \in (i - h)..(i + h) : isfinite(Extended(values, p))}

Magnitude(values, p) ==
    IF Extended(values, p).v < 0 THEN -Extended(values, p).v ELSE Extended(values, p).v

RECURSIVE SumMagnitudes(_, _)
SumMagnitudes(values, P) ==
    IF P = {} THEN 0
    ELSE LET p == CHOOSE x \in P : TRUE
         IN Magnitude(values, p) + SumMagnitudes(values, P \ {p})

RankedMagnitude(values, P, r) ==
    LET p == CHOOSE x \in P :
                 /\ Cardinality({q \in P : Magnitude(values, q) < Magnitude(values, x)}) <= r
                 /\ Cardinality({q \in P : Magnitude(values, q) <= Magnitude(values, x)}) > r
    IN Magnitude(values, p)

MeanAt(values, i, h) ==
    LET P == FinitePositions(values, i, h)
    IN [k |-> "fin", v |-> SumMagnitudes(values, P) \div Cardinality(P), e |-> 0]

MedianAt(values, i, h) ==
    LET P == FinitePositions(values, i, h)
        n == Cardinality(P)
    IN [k |-> "fin",
        v |-> (RankedMagnitude(values, P, (n - 1) \div 2) + RankedMagnitude(values, P, n \div 2)) \div 2,
        e |-> 0]

Reduced(values, i, h, mean) ==
    IF FinitePositions(values, i, h) = {} THEN NaN
    ELSE IF mean THEN MeanAt(values, i, h)
    ELSE MedianAt(values, i, h)

SmoothedAs(mean) ==
    /\ Len(call.ret) = Len(call.values)
    /\ \A i \in 1..Len(call.values) :
          call.ret[i] = Reduced(call.values, i, OddWindow(call.window) \div 2, mean)
    /\ call.window % 2 = 0 =>
          call.ret = _smooth_series(call.values, call.window + 1, call.mode)

\* C17 as stated: the mean is taken only for the mode string "mean" itself
C17_SmoothReducerExactMode == SmoothCase => SmoothedAs(call.mode = "mean")

(***************************************************************************)
(* C17 (amended): as above, with the reducer being the mean when the mode, *)
(* lower-cased, is "mean" (so "MEAN" selects the mean too) and the median  *)
(* otherwise.                                                              *)
(***************************************************************************)
C17_SmoothReducer == SmoothCase => SmoothedAs(call.mode \in {"mean", "MEAN"})

C17_Witness ==
    /\ SmoothCase
    /\ call.mode = "MEAN"
    /\ call.window = 2
    /\ \E i \in 1..Len(call.values) : call.ret[i] = NaN
    /\ \E i \in 1..Len(call.values) :
          /\ isfinite(call.ret[i])
          /\ \E p \in (i - 1)..(i + 1) : ~isfinite(Extended(call.values, p))
    /\ \E i \in 1..Len(call.values) :
          /\ FinitePositions(call.values, i, 1) # {}
          /\ call.ret[i] = MeanAt(call.values, i, 1)
          /\ MeanAt(call.values, i, 1) # MedianAt(call.values, i, 1)
          /\ \E p \in FinitePositions(call.values, i, 1) : Extended(call.values, p).v < 0

(***************************************************************************)
(* C18: _smooth_series returns the input unchanged whenever window <= 1 or *)
(* the input is empty, whatever the mode string.                           *)
(***************************************************************************)
SmoothSkipped == call.f = "_smooth_series" /\ call.done /\ (call.window <= 1 \/ call.values = <<>>)

C18_SmoothNoOp == SmoothSkipped => call.ret = call.values

C18_Witness ==
    /\ SmoothSkipped
    /\ call.window = 1
    /\ call.mode = "bogus"
    /\ call.ret = call.values
    /\ \E i \in 1..Len(call.values) : call.values[i] = Fin(-2)
    /\ \E i \in 1..Len(call.values) : ~isfinite(call.values[i])

(***************************************************************************)
(* Helper specification: _reference_index on parallel frequency and        *)
(* amplitude sequences.                                                    *)
(***************************************************************************)
InitRefIndex ==
    /\ \E n \in 0..MaxLen :
          \E amps \in [1..n -> {Fin(0), Fin(1), Fin(2), NaN, PInf}], fl \in {[i \in 1..n |-> Fin(100 * i)], build_freq_points(n)},
             ref_mode \in {"max", "freq", "frequency", "FREQ"}, ref_hz \in {Fin(0), Fin(3)} :
             call = [f |-> "_reference_index", freqs |-> fl, amps |-> amps,
                     ref_mode |-> ref_mode, ref_hz |-> ref_hz, done |-> FALSE, ret |-> 0]
    /\ DriverIdle

CallRefIndex ==
    /\ call.f = "_reference_index"
    /\ ~call.done
    /\ call' = [call EXCEPT !.done = TRUE,
                            !.ret = _reference_index(call.freqs, call.amps, call.ref_mode,
                                                     call.ref_hz)]
    /\ UNCHANGED driver_vars

NextRefIndex == CallRefIndex

SpecRefIndex == InitRefIndex /\ [][NextRefIndex]_vars

(***************************************************************************)
(* C19: _reference_index returns 0 when no index holds a finite amplitude  *)
(* > 0; otherwise it returns such an index: in "max" mode the smallest     *)
(* index holding the greatest eligible amplitude, so that                  *)
(* ([100, 200, 300], [1.0, 2.0, 2.0], "max", 0) gives 1; in a mode         *)
(* starting with "freq" the smallest eligible index whose frequency is     *)
(* closest to the target.  Indices count from 0.                           *)
(***************************************************************************)
RefIndexReturned == call.f = "_reference_index" /\ call.done

Eligible == {i \in 0..(Len(call.amps) - 1) :
                call.amps[i + 1].k = "fin" /\ call.amps[i + 1].v > 0}

Distance(i) ==
    IF call.freqs[i + 1].v >= call.ref_hz.v THEN call.freqs[i + 1].v - call.ref_hz.v
    ELSE call.ref_hz.v - call.freqs[i + 1].v

RefExample ==
    /\ call.freqs = <<Fin(100), Fin(200), Fin(300)>>
    /\ call.amps = <<Fin(1), Fin(2), Fin(2)>>
    /\ call.ref_mode = "max"
    /\ call.ref_hz = Fin(0)

C19_ReferenceIndex ==
    RefIndexReturned =>
        /\ Eligible = {} => call.ret = 0
        /\ Eligible # {} =>
              /\ call.ret \in Eligible
              /\ call.ref_mode = "max" =>
                    \A j \in Eligible :
                        /\ call.amps[call.ret + 1].v >= call.amps[j + 1].v
                        /\ call.amps[call.ret + 1].v = call.amps[j + 1].v => call.ret <= j
              /\ call.ref_mode \in {"freq", "frequency"} =>
                    \A j \in Eligible :
                        /\ Distance(call.ret) <= Distance(j)
                        /\ Distance(call.ret) = Distance(j) => call.ret <= j
        /\ RefExample => call.ret = 1

C19_Witness ==
    /\ RefIndexReturned
    /\ RefExample
    /\ call.ret = 1

\* two eligible indices are equally close to the target and the first is returned
C19_WitnessFrequencyTie ==
    /\ RefIndexReturned
    /\ call.ref_mode = "frequency"
    /\ \E j \in Eligible : j > call.ret /\ Distance(j) = Distance(call.ret)
    /\ \E j \in 0..(Len(call.amps) - 1) : j \notin Eligible /\ j < call.ret

(***************************************************************************)
(* C20: in the record knee_sweep returns, when knees were found target_db  *)
(* is ref_db - knee_drop_db and the rel_db of a row is                     *)
(* 20 * log10(vpp) - ref_db if the row's calibrated Vpp is finite and > 0  *)
(* and -inf otherwise; when no knees were found every rel_db is -inf and   *)
(* ref_db and target_db are NaN.                                           *)
(***************************************************************************)
KneeRecordBuilt ==
    /\ fn = "knee_sweep"
    /\ pc \in {"resume", "restore", "return", "done"}
    /\ Len(raw_rows) = args.points

PositiveFinite(x) == x.k = "fin" /\ (x.v > 0 \/ (x.v = 0 /\ x.e > 0))

C20_RelativeDb ==
    KneeRecordBuilt =>
        /\ Len(result.rows) = args.points
        /\ result.knees.found =>
              /\ result.ref_db = result.knees.ref_db
              /\ result.ref_db.k = "fin"
              /\ result.target_db.k = "fin"
              /\ result.target_db.v = result.ref_db.v - args.knee_drop_db.v
              /\ \A i \in 1..args.points :
                    IF PositiveFinite(result.rows[i].pk)
                    THEN /\ result.rows[i].rel_db.k = "fin"
                         /\ result.rows[i].rel_db.v =
                               Fin(db20log10(result.rows[i].pk)).v - result.ref_db.v
                    ELSE result.rows[i].rel_db = NInf
        /\ ~result.knees.found =>
              /\ result.ref_db = NaN
              /\ result.target_db = NaN
              /\ \A i \in 1..args.points : result.rows[i].rel_db = NInf

\* knees found on a calibrated sweep: one row has no valid Vpp, another lies
\* below the reference level
C20_Witness ==
    /\ KneeRecordBuilt
    /\ pc = "done"
    /\ outcome.kind = "return"
    /\ result.knees.found
    /\ args.calibration_curve # NoCurve
    /\ args.knee_drop_db = Fin(6)
    /\ \E i \in 1..args.points : result.rows[i].rel_db = NInf
    /\ \E i \in 1..args.points :
          /\ result.rows[i].pk # raw_rows[i].pk
          /\ isfinite(result.rows[i].rel_db)
          /\ result.rows[i].rel_db # Fin(0)

C20_WitnessNoKnees ==
    /\ KneeRecordBuilt
    /\ pc = "done"
    /\ outcome.kind = "return"
    /\ ~result.knees.found
    /\ \E i \in 1..args.points : PositiveFinite(result.rows[i].pk)

(***************************************************************************)
(* C21: with an output path, thd_sweep and knee_sweep write a CSV whose    *)
(* first line is the header (freq_hz, vrms, pkpk, thd_percent for THD and  *)
(* freq_hz, vrms, pkpk, rel_db for knee) followed by exactly one line per  *)
(* frequency point, in measurement order and equal to the returned rows    *)
(* (after calibration and spike filtering); without an output path no file *)
(* is written and the returned path is None.                               *)
(***************************************************************************)
OutputGiven == args.output \notin {NoneStr, ""}

Returned == fn \in {"thd_sweep", "knee_sweep"} /\ pc = "done" /\ outcome.kind = "return"

C21_CsvContent ==
    /\ fn \in {"thd_sweep", "knee_sweep"} /\ ~OutputGiven => ~csv.exists
    /\ Returned /\ ~OutputGiven => result.out_path = NoneStr
    /\ Returned /\ OutputGiven =>
          /\ csv.exists
          /\ result.out_path = args.output
          /\ csv.header = <<"freq_hz", "vrms", "pkpk",
                            IF fn = "thd_sweep" THEN "thd_percent" ELSE "rel_db">>
          /\ Len(csv.lines) = args.points
          /\ csv.lines = result.rows
          /\ \A i \in 1..args.points : csv.lines[i].freq = freqs[i]

C21_Witness ==
    /\ Returned
    /\ OutputGiven
    /\ fn = "thd_sweep"
    /\ args.points = MaxPoints
    /\ args.calibration_curve # NoCurve
    /\ result.suppressed # <<>>
    /\ csv.lines = result.rows
    /\ \E i \in 1..args.points : csv.lines[i].thd_percent # raw_rows[i].thd_percent
    /\ \E i \in 1..args.points : csv.lines[i].pk # raw_rows[i].pk

(***************************************************************************)
(* C22: after a knee_sweep whose measurement loop completes, exactly one   *)
(* generator call follows the per-point calls; it is the last generator    *)
(* call and uses 1000 Hz, the caller's amp_vpp and sine wave; a failure of *)
(* that call is logged and not raised; knee_sweep never issues a timebase  *)
(* command.                                                                *)
(***************************************************************************)
NoTimebaseCommand == \A i \in 1..Len(scope_cmds) : scope_cmds[i].cmd # "timebase"

C22_KneeIdleRestore ==
    /\ fn = "knee_sweep" => NoTimebaseCommand
    /\ (fn = "knee_sweep" /\ pc = "done" /\ LoopCompleted) =>
          /\ Len(gen_calls) = args.points + 1
          /\ gen_calls[Len(gen_calls)].freq_hz = Fin(1000)
          /\ gen_calls[Len(gen_calls)].amp_vpp = args.amp_vpp
          /\ gen_calls[Len(gen_calls)].wave = "Sine"
          /\ ~gen_calls[Len(gen_calls)].ok =>
                /\ outcome.kind = "return"
                /\ Len(log) = 1
                /\ log[1].level = "WARNING"

(***************************************************************************)
(* C23: with a calibration curve, every row thd_sweep or knee_sweep        *)
(* returns has Vrms and Vpp equal to curve.apply(freq, v) of the value v   *)
(* the per-point helper reported when v is finite, and equal to v when v   *)
(* is not finite; frequency and THD do not go through the curve; without a *)
(* curve the values are returned as reported; the curve is only read,      *)
(* never changed.                                                          *)
(***************************************************************************)
RowsBuilt ==
    /\ fn \in {"thd_sweep", "knee_sweep"}
    /\ pc \in {"resume", "restore", "timebase", "return", "done"}
    /\ Len(raw_rows) = args.points

ThroughCurve(freq, v) ==
    IF args.calibration_curve = NoCurve THEN v
    ELSE IF v.k = "fin" THEN curve_apply(args.calibration_curve, freq, v)
    ELSE v

\* the THD thd_sweep returns for row i: the reported one, or the baseline of
\* the reported THD values around it when the spike filter replaces it
ReportedThd(i) ==
    IF args.filter_spikes /\ Replaced(raw_rows, i, args.filter_window, args.filter_factor,
                                      args.filter_min_percent)
    THEN Baseline(raw_rows, i, args.filter_window)
    ELSE raw_rows[i].thd_percent

CalibratedRows ==
    RowsBuilt =>
        /\ Len(result.rows) = args.points
        /\ \A i \in 1..args.points :
              /\ result.rows[i].freq = raw_rows[i].freq
              /\ result.rows[i].vr = ThroughCurve(raw_rows[i].freq, raw_rows[i].vr)
              /\ result.rows[i].pk = ThroughCurve(raw_rows[i].freq, raw_rows[i].pk)
              /\ fn = "thd_sweep" => result.rows[i].thd_percent = ReportedThd(i)

StrategySettings ==
    [calibrate_to_vpp : {None, Fin(2), Fin(6)}, amp_vpp : {Fin(1), Fin(5)},
     calibration_curve : {[k |-> "curve", ratio |-> r, gain |-> 2] : r \in {-2, -1, 0, 1, 2, 3}}]
    \cup [calibrate_to_vpp : {None}, amp_vpp : {Fin(1), Fin(5)}, calibration_curve : {NoCurve}]

InitAmpSetup ==
    /\ \E a \in StrategySettings, i \in 1..MaxPoints :
          call = [f |-> "amp_vpp_strategy", a |-> a, freq |-> build_freq_points(MaxPoints)[i],
                  done |-> FALSE, strategy |-> None, sweep_amp |-> None]
    /\ DriverIdle

CallAmpSetup ==
    /\ call.f = "amp_vpp_strategy"
    /\ ~call.done
    /\ call' = [call EXCEPT !.done = TRUE,
                            !.strategy = amp_vpp_strategy(call.a, call.freq),
                            !.sweep_amp = sweep_amp(call.a)]
    /\ UNCHANGED driver_vars

NextAmpSetup == CallAmpSetup \/ NextSweep

SpecAmpSetup == (InitAmpSetup \/ InitSweep) /\ [][NextAmpSetup]_vars

(***************************************************************************)
(* C24: with calibrate_to_vpp and a calibration curve, the generator       *)
(* amplitude for a frequency is target / ratio_at(freq) when the ratio is  *)
(* > 0 and exactly target when the ratio is <= 0, and the base sweep       *)
(* amplitude is the target; with calibrate_to_vpp None no strategy is      *)
(* installed and the base sweep amplitude is amp_vpp.                      *)
(***************************************************************************)
AmpSetupDone == call.f = "amp_vpp_strategy" /\ call.done

\* amp is target / ratio, as an exact quotient
IsQuotient(amp, target, ratio) == amp.k = "fin" /\ amp.v * ratio = target.v /\ amp.e = 0

C24_AmplitudeStrategy ==
    /\ AmpSetupDone /\ call.a.calibrate_to_vpp # None =>
          /\ call.sweep_amp = call.a.calibrate_to_vpp
          /\ IF call.a.calibration_curve.ratio > 0
             THEN IsQuotient(call.strategy, call.a.calibrate_to_vpp, call.a.calibration_curve.ratio)
             ELSE call.strategy = call.a.calibrate_to_vpp
    /\ AmpSetupDone /\ call.a.calibrate_to_vpp = None =>
          /\ call.strategy = None
          /\ call.sweep_amp = call.a.amp_vpp
    /\ fn \in {"thd_sweep", "knee_sweep"} =>
          \A i \in 1..Len(gen_calls) :
              i <= args.points =>
                 IF args.calibrate_to_vpp # None
                 THEN IF args.calibration_curve.ratio > 0
                      THEN IsQuotient(gen_calls[i].amp_vpp, args.calibrate_to_vpp,
                                      args.calibration_curve.ratio)
                      ELSE gen_calls[i].amp_vpp = args.calibrate_to_vpp
                 ELSE gen_calls[i].amp_vpp = args.amp_vpp

C24_Witness ==
    /\ AmpSetupDone
    /\ call.a.calibrate_to_vpp = Fin(6)
    /\ call.a.calibration_curve.ratio < 0
    /\ call.strategy = Fin(6)
    /\ call.sweep_amp = Fin(6)

C24_WitnessQuotient ==
    /\ AmpSetupDone
    /\ call.a.calibrate_to_vpp = Fin(2)
    /\ call.a.calibration_curve.ratio = 3
    /\ call.strategy.v * 3 = Fin(2).v
    /\ call.strategy # Fin(2)

C24_WitnessSweep ==
    /\ fn = "knee_sweep"
    /\ pc = "done"
    /\ outcome.kind = "return"
    /\ args.calibrate_to_vpp # None
    /\ args.points = MaxPoints
    /\ \A i \in 1..args.points : gen_calls[i].amp_vpp = Fin(1)

(***************************************************************************)
(* Scale-map normalisation of thd_sweep and knee_sweep.  A key is an int   *)
(* or a string, a gain a float, a string or None; scope_scale_map is the   *)
(* dict as the sequence of its items in insertion order.                   *)
(***************************************************************************)
IntKey(n) == [t |-> "int", n |-> n, s |-> ""]

StrKey(s) == [t |-> "str", n |-> 0, s |-> s]

StrGain(s) == [t |-> "str", v |-> NaN, s |-> s]

\* str.strip()
strip(str) ==
    CASE str = " 2 " -> "2"
      [] str = " Math" -> "Math"
      [] str = "  " -> ""
      [] str = " ch2 " -> "ch2"
      [] str = " HANNING " -> "HANNING"
      [] OTHER -> str

\* str.upper()
upper(str) ==
    CASE str = "math" -> "MATH"
      [] str = "Math" -> "MATH"
      [] str = "ch3" -> "CH3"
      [] str = "ch2" -> "CH2"
      [] str = "Ch4" -> "CH4"
      [] str = "ch²" -> "CH²"
      [] str = "chx" -> "CHX"
      [] str = "ref1" -> "REF1"
      [] str = "Ref4" -> "REF4"
      [] str = "ref5" -> "REF5"
      [] str = "invalid" -> "INVALID"
      [] str = "hanning" -> "HANNING"
      [] str = " hanning " -> " HANNING "
      [] str = "Hann" -> "HANN"
      [] str = "hanng" -> "HANNG"
      [] str = "hamm" -> "HAMM"
      [] str = "Hamming" -> "HAMMING"
      [] str = "rect" -> "RECT"
      [] str = "rectangle" -> "RECTANGLE"
      [] str = "Rectangular" -> "RECTANGULAR"
      [] str = "black" -> "BLACK"
      [] str = "Blackman" -> "BLACKMAN"
      [] str = "flat" -> "FLAT"
      [] str = "flattop" -> "FLATTOP"
      [] str = "kaiser" -> "KAISER"
      [] str = "bartlett" -> "BARTLETT"
      [] str = "db" -> "DB"
      [] str = "dbm" -> "DBM"
      [] str = "linear" -> "LINEAR"
      [] str = "lin" -> "LIN"
      [] str = "log" -> "LOG"
      [] OTHER -> str

\* label[0].isdigit() of a non-empty label
first_isdigit(label) == label \in {"1", "2"}

\* mutant: an empty label is kept as it is
scale_label_no_fallback(key) ==
    IF key.t = "int" THEN "CH" \o ToString(key.n)
    ELSE LET label == upper(strip(key.s))
         IN IF label # "" /\ first_isdigit(label) THEN "CH" \o label ELSE label

\* the key under which an entry is stored: label or "CH1"
scale_label(key) ==
    IF key.t = "int" THEN "CH" \o ToString(key.n)
    ELSE LET label == upper(strip(key.s))
             named == IF label # "" /\ first_isdigit(label) THEN "CH" \o label ELSE label
         IN IF named = "" THEN "CH1" ELSE named

\* float(gain): ok is FALSE when the conversion raises
to_float(gain) ==
    IF gain.t = "float" THEN [ok |-> TRUE, v |-> gain.v]
    ELSE IF gain = StrGain("3") THEN [ok |-> TRUE, v |-> Fin(3)]
    ELSE [ok |-> FALSE, v |-> NaN]

RECURSIVE normalize_loop(_, _, _)
normalize_loop(items, normalized, warnings) ==
    IF items = <<>> THEN [normalized |-> normalized, warnings |-> warnings]
    ELSE LET key == Head(items).key
             gain == Head(items).gain
             label == scale_label(key)
         IN IF to_float(gain).ok
            THEN normalize_loop(Tail(items),
                                [l \in DOMAIN normalized \cup {label} |->
                                    IF l = label THEN to_float(gain).v ELSE normalized[l]],
                                warnings)
            ELSE normalize_loop(Tail(items), normalized,
                                Append(warnings, [level |-> "WARNING",
                                                  msg |-> "Invalid scope scale gain",
                                                  gain |-> gain, key |-> key]))

\* vertical_scale_map (present is FALSE for None), the warnings logged, and
\* the two callables handed to sweep_audio_kpis
scale_setup(scope_scale_map) ==
    LET done == normalize_loop(scope_scale_map, <<>>, <<>>)
        present == scope_scale_map # <<>> /\ DOMAIN done.normalized # {}
    IN [present |-> present,
        vertical_scale_map |-> IF present THEN done.normalized ELSE <<>>,
        warnings |-> IF scope_scale_map # <<>> THEN done.warnings ELSE <<>>,
        scope_set_vertical_scale |-> IF present THEN "_scope_set_vertical_scale" ELSE NoneStr,
        scope_read_vertical_scale |-> IF present THEN "_scope_read_vertical_scale" ELSE NoneStr,
        raised |-> FALSE]

(***************************************************************************)
(* Helper specification: the scale-map set-up on any dict of up to         *)
(* MaxEntries items.                                                       *)
(***************************************************************************)
MaxEntries == 2

\* dicts: no key twice
ScaleMaps ==
    UNION {{m \in [1..n -> [key : {IntKey(1), IntKey(2)}
                                  \cup {StrKey(s) : s \in {"1", " 2 ", "math", " Math",
                                                            "CH2", "ch3", "", "  "}},
                            gain : {[t |-> "float", v |-> Fin(10), s |-> ""], StrGain("3"),
                                    StrGain("abc"), [t |-> "none", v |-> NaN, s |-> ""]}]] :
               \A i, j \in 1..n : i # j => m[i].key # m[j].key}
              : n \in 0..MaxEntries}

InitScaleMap ==
    /\ \E m \in ScaleMaps :
          call = [f |-> "scope_scale_map", scope_scale_map |-> m, done |-> FALSE,
                  ret |-> scale_setup(<<>>)]
    /\ DriverIdle

CallScaleSetup ==
    /\ call.f = "scope_scale_map"
    /\ ~call.done
    /\ call' = [call EXCEPT !.done = TRUE, !.ret = scale_setup(call.scope_scale_map)]
    /\ UNCHANGED driver_vars

NextScaleMap == CallScaleSetup

SpecScaleMap == InitScaleMap /\ [][NextScaleMap]_vars

(***************************************************************************)
(* C25: scale-map normalisation maps an integer key n and a string key     *)
(* starting with a digit to "CH<n>", upper-cases and strips any other      *)
(* string key ("math" becomes "MATH"), drops with a logged warning every   *)
(* entry whose gain cannot be converted to a float, and does not raise;    *)
(* the vertical-scale set and read callables are handed to the per-point   *)
(* helper exactly when at least one entry survives.                        *)
(***************************************************************************)
ScaleSetupDone == call.f = "scope_scale_map" /\ call.done

Convertible(gain) == gain.t = "float" \/ (gain.t = "str" /\ gain.s = "3")

GainValue(gain) == IF gain.t = "float" THEN gain.v ELSE Fin(3)

\* the label as the claim words it: the digit test on the key as given,
\* every other string stripped and upper-cased
LabelAsStated(key) ==
    CASE key.t = "int" /\ key.n = 1 -> "CH1"
      [] key.t = "int" /\ key.n = 2 -> "CH2"
      [] key.t = "str" /\ key.s = "1" -> "CH1"
      [] key.t = "str" /\ key.s = " 2 " -> "2"
      [] key.t = "str" /\ key.s \in {"math", " Math"} -> "MATH"
      [] key.t = "str" /\ key.s = "CH2" -> "CH2"
      [] key.t = "str" /\ key.s = "ch3" -> "CH3"
      [] key.t = "str" /\ key.s \in {"", "  "} -> ""

\* the label with the digit test on the stripped key and "CH1" for a key
\* that is empty once stripped
LabelStripped(key) ==
    CASE key.t = "int" /\ key.n = 1 -> "CH1"
      [] key.t = "int" /\ key.n = 2 -> "CH2"
      [] key.t = "str" /\ key.s = "1" -> "CH1"
      [] key.t = "str" /\ key.s = " 2 " -> "CH2"
      [] key.t = "str" /\ key.s \in {"math", " Math"} -> "MATH"
      [] key.t = "str" /\ key.s = "CH2" -> "CH2"
      [] key.t = "str" /\ key.s = "ch3" -> "CH3"
      [] key.t = "str" /\ key.s \in {"", "  "} -> "CH1"

Survivors == {i \in 1..Len(call.scope_scale_map) : Convertible(call.scope_scale_map[i].gain)}

Dropped == {i \in 1..Len(call.scope_scale_map) : ~Convertible(call.scope_scale_map[i].gain)}

NormalizedAs(Label(_)) ==
    LET m == call.scope_scale_map
    IN /\ ~call.ret.raised
       /\ call.ret.present <=> Survivors # {}
       /\ call.ret.scope_set_vertical_scale # NoneStr <=> Survivors # {}
       /\ call.ret.scope_read_vertical_scale # NoneStr <=> Survivors # {}
       /\ Survivors # {} =>
             /\ DOMAIN call.ret.vertical_scale_map = {Label(m[i].key) : i \in Survivors}
             /\ \A i \in Survivors :
                   (\A j \in Survivors : j > i => Label(m[j].key) # Label(m[i].key)) =>
                      call.ret.vertical_scale_map[Label(m[i].key)] = GainValue(m[i].gain)
       /\ Len(call.ret.warnings) = Cardinality(Dropped)
       /\ \A i \in Dropped :
             LET w == call.ret.warnings[Cardinality({j \in Dropped : j <= i})]
             IN w.level = "WARNING" /\ w.key = m[i].key /\ w.gain = m[i].gain

C25_ScaleMapAsStated == ScaleSetupDone => NormalizedAs(LabelAsStated)

(***************************************************************************)
(* C25 (amended): as above, where the digit test is made on the stripped   *)
(* key (so " 2 " gives "CH2") and a string key that is empty once stripped *)
(* gives "CH1".                                                            *)
(***************************************************************************)
C25_ScaleMapNormalized == ScaleSetupDone => NormalizedAs(LabelStripped)

C25_Witness ==
    /\ ScaleSetupDone
    /\ Len(call.scope_scale_map) = 2
    /\ call.scope_scale_map[1].key = StrKey("")
    /\ call.scope_scale_map[1].gain = StrGain("3")
    /\ call.scope_scale_map[2].gain = StrGain("abc")
    /\ DOMAIN call.ret.vertical_scale_map = {"CH1"}
    /\ call.ret.vertical_scale_map["CH1"] = Fin(3)
    /\ Len(call.ret.warnings) = 1
    /\ call.ret.scope_set_vertical_scale # NoneStr

\* every entry is dropped: nothing is handed to the per-point helper
C25_WitnessAllDropped ==
    /\ ScaleSetupDone
    /\ Len(call.scope_scale_map) = 2
    /\ Len(call.ret.warnings) = 2
    /\ ~call.ret.present
    /\ call.ret.scope_set_vertical_scale = NoneStr

(***************************************************************************)
(* C26: in a thd_sweep or knee_sweep run with an output path whose         *)
(* measurement loop completes, the CSV is completely written before the    *)
(* first cleanup command is issued, and the cleanup commands are issued in *)
(* the order oscilloscope resume, generator idle restore, then (thd_sweep  *)
(* only, when post_seconds_per_div is not None) timebase restore; so no    *)
(* cleanup failure keeps the CSV from existing.                            *)
(***************************************************************************)
CsvComplete == csv.exists /\ Len(csv.lines) = args.points /\ csv.lines = result.rows

Issues(cmd) ==
    /\ Len(scope_cmds') = Len(scope_cmds) + 1
    /\ scope_cmds'[Len(scope_cmds')].cmd = cmd

IssuesIdleRestore ==
    /\ LoopCompleted
    /\ pc # "measure"
    /\ Len(gen_calls') = Len(gen_calls) + 1

Issued(cmd) == \E i \in 1..Len(scope_cmds) : scope_cmds[i].cmd = cmd

CleanupStep ==
    /\ (Issues("resume") \/ IssuesIdleRestore \/ Issues("timebase")) =>
          /\ LoopCompleted
          /\ csv' = csv
          /\ OutputGiven => CsvComplete
    /\ Issues("resume") =>
          /\ ~Issued("resume")
          /\ ~Issued("timebase")
          /\ Len(gen_calls) = args.points
    /\ IssuesIdleRestore =>
          /\ Issued("resume")
          /\ ~Issued("timebase")
          /\ Len(gen_calls) = args.points
    /\ Issues("timebase") =>
          /\ fn = "thd_sweep"
          /\ args.post_seconds_per_div # None
          /\ Issued("resume")
          /\ ~Issued("timebase")
          /\ Len(gen_calls) = args.points + 1

CsvSurvivesCleanup ==
    (fn \in {"thd_sweep", "knee_sweep"} /\ OutputGiven /\ LoopCompleted
        /\ pc \in {"resume", "restore", "timebase", "return", "done"}) => CsvComplete

C26_CsvBeforeCleanup == []CsvSurvivesCleanup /\ [][CleanupStep]_vars

\* all three cleanup commands were issued after the CSV
C26_Witness ==
    /\ fn = "thd_sweep"
    /\ pc = "done"
    /\ OutputGiven
    /\ CsvComplete
    /\ Len(gen_calls) = args.points + 1
    /\ Len(scope_cmds) = args.points + 2
    /\ scope_cmds[args.points + 1].cmd = "resume"
    /\ scope_cmds[args.points + 2] = [cmd |-> "timebase", ok |-> FALSE]
    /\ ~gen_calls[args.points + 1].ok

\* the resume raised and the CSV is there
C26_WitnessResumeRaised ==
    /\ fn = "knee_sweep"
    /\ pc = "done"
    /\ outcome.kind = "raise"
    /\ OutputGiven
    /\ LoopCompleted
    /\ CsvComplete

(***************************************************************************)
(* C27: if the per-point measurement helper raises inside thd_sweep or     *)
(* knee_sweep, no cleanup command is issued afterwards: the oscilloscope   *)
(* resume, the generator idle restore and the timebase restore are all     *)
(* skipped, and the instruments stay as the failing point left them.       *)
(***************************************************************************)
C27_NoCleanupAfterFailure ==
    (fn \in {"thd_sweep", "knee_sweep"} /\ pending # NoExc) =>
        /\ \A i \in 1..Len(scope_cmds) : scope_cmds[i].cmd = "capture"
        /\ Len(gen_calls) = Len(raw_rows) + 1
        /\ \A i \in 1..Len(gen_calls) : gen_calls[i].freq_hz = freqs[i]
        /\ log = <<>>
        /\ pc \in {"helper_raised", "done"}
        /\ pc = "done" => outcome.kind = "raise"

\* the capture of the last point fails after the earlier points were measured
C27_Witness ==
    /\ fn = "thd_sweep"
    /\ pc = "done"
    /\ pending = CaptureError
    /\ args.post_seconds_per_div # None
    /\ Len(raw_rows) = MaxPoints - 1
    /\ Len(gen_calls) = MaxPoints
    /\ gen_calls[MaxPoints].ok
    /\ scope_cmds[Len(scope_cmds)] = [cmd |-> "capture", ok |-> FALSE]

(***************************************************************************)
(* Helper specification: the series knee_sweep's _knee_detector closure    *)
(* hands to find_knees, for any raw amplitude series and any accepted      *)
(* combination of smoothing mode, window, envelope and reference mode.     *)
(***************************************************************************)
InitProcessed ==
    /\ \E amps \in UNION {[1..n -> {Fin(-2), Fin(0), Fin(1), Fin(3), NaN, PInf, NInf}] : n \in 0..MaxLen},
          a \in DetectorSettings, ref_mode \in {"max", "freq"} :
          call = [f |-> "knee_processed", a |-> a,
                  freq_list |-> build_freq_points(Len(amps)), amps |-> amps,
                  ref_mode |-> ref_mode, ref_hz |-> Fin(2),
                  done |-> FALSE, ret |-> <<>>]
    /\ DriverIdle

CallProcessed ==
    /\ call.f = "knee_processed"
    /\ ~call.done
    /\ call' = [call EXCEPT !.done = TRUE,
                            !.ret = knee_processed(call.a, call.freq_list, call.amps,
                                                   call.ref_mode, call.ref_hz)]
    /\ UNCHANGED driver_vars

NextProcessed == CallProcessed

SpecProcessed == InitProcessed /\ [][NextProcessed]_vars

(***************************************************************************)
(* C28: whatever the raw amplitude series holds (NaN, infinite, zero and   *)
(* negative entries included) and whatever accepted smoothing mode,        *)
(* smooth_window, enforce_monotonic and reference mode are in force, the   *)
(* series knee_sweep hands to find_knees is as long as the frequency list  *)
(* and holds only finite, strictly positive values.                        *)
(***************************************************************************)
ProcessedHandedOver == call.f = "knee_processed" /\ call.done

C28_ProcessedPositiveFinite ==
    ProcessedHandedOver =>
        /\ Len(call.ret) = Len(call.freq_list)
        /\ \A i \in 1..Len(call.ret) :
              /\ call.ret[i].k = "fin"
              /\ call.ret[i].v > 0 \/ (call.ret[i].v = 0 /\ call.ret[i].e > 0)

\* every kind of bad entry at once, smoothed and then enveloped
C28_Witness ==
    /\ ProcessedHandedOver
    /\ Len(call.amps) = 4
    /\ call.amps[1] = NaN
    /\ call.amps[2] \in {PInf, NInf}
    /\ call.amps[3] = Fin(3)
    /\ call.amps[4] \in {Fin(0), Fin(-2)}
    /\ call.a.smoothing = "MEAN"
    /\ call.a.smooth_window = 3
    /\ call.a.enforce_monotonic
    /\ Len(call.ret) = 4
    /\ call.ret[1] # call.ret[3]
    /\ call.ret[3].v > 0

(***************************************************************************)
(* tek.py: _resolve_source, the DATA:SOURCE normaliser.  A channel         *)
(* argument is an int, a str, None or some other object; the string        *)
(* methods are tabulated on the strings the calls below use.               *)
(***************************************************************************)
\* str.isdigit(): true of a non-empty string of digit characters, the
\* superscript digits (Numeric_Type=Digit) included
isdigit(str) == str \in {"1", "2", "3", "4", "007", "²"}

\* value[2:] of a value that starts with "CH"
after_prefix(value) ==
    CASE value = "CH1" -> "1"
      [] value = "CH2" -> "2"
      [] value = "CH3" -> "3"
      [] value = "CH4" -> "4"
      [] value = "CH007" -> "007"
      [] value = "CH²" -> "²"
      [] value = "CHX" -> "X"
      [] OTHER -> ""

\* int(str): accepts decimal digits only (Numeric_Type=Decimal)
int_of_str(str) ==
    CASE str = "1" -> [ok |-> TRUE, n |-> 1]
      [] str = "2" -> [ok |-> TRUE, n |-> 2]
      [] str = "3" -> [ok |-> TRUE, n |-> 3]
      [] str = "4" -> [ok |-> TRUE, n |-> 4]
      [] str = "007" -> [ok |-> TRUE, n |-> 7]
      [] OTHER -> [ok |-> FALSE, n |-> 0]

SourceLabel(label) == [kind |-> "return", value |-> label, exc |-> NoExc]

\* f"CH{int(digits)}", outside any handler
channel_of_digits(digits) ==
    IF int_of_str(digits).ok
    THEN SourceLabel("CH" \o ToString(int_of_str(digits).n))
    ELSE [kind |-> "raise", value |-> "",
          exc |-> [type |-> "ValueError", msg |-> "invalid literal for int() with base 10"]]

_resolve_source(ch) ==
    IF ch.t = "str"
    THEN LET value == upper(strip(ch.s))
         IN IF value = "" THEN SourceLabel("CH1")
            ELSE IF value \in {"MATH", "REF1", "REF2", "REF3", "REF4"} THEN SourceLabel(value)
            ELSE IF value \in {"CH", "CH1", "CH2", "CH3", "CH4", "CH007", "CH²", "CHX"}
                    /\ isdigit(after_prefix(value))
                 THEN channel_of_digits(after_prefix(value))
            ELSE IF isdigit(value) THEN channel_of_digits(value)
            ELSE SourceLabel("CH1")
    ELSE IF ch.t = "int" THEN SourceLabel("CH" \o ToString(ch.n))
    ELSE SourceLabel("CH1")

(***************************************************************************)
(* tek.py: scope_capture_fft_trace.  The call validates its arguments,     *)
(* opens the VISA session, then configures the FFT and transfers the       *)
(* trace.                                                                  *)
(***************************************************************************)
window_map ==
    [key \in {"RECT", "RECTANGULAR", "RECTANGLE", "HANN", "HANNING", "HAMM", "HAMMING",
              "BLACK", "BLACKMAN", "FLAT", "FLATTOP"} |->
        CASE key \in {"RECT", "RECTANGULAR", "RECTANGLE"} -> "RECTANGULAR"
          [] key \in {"HANN", "HANNING"} -> "HANNING"
          [] key \in {"HAMM", "HAMMING"} -> "HAMMING"
          [] key \in {"BLACK", "BLACKMAN"} -> "BLACKMAN"
          [] OTHER -> "FLATTOP"]

scale_map ==
    [key \in {"LIN", "LINEAR", "DB", "DBM", "DECIBEL"} |->
        IF key \in {"LIN", "LINEAR"} THEN "LINEAR" ELSE "DB"]

\* str.rstrip("G")
rstrip_G(str) ==
    CASE str = "HANNG" -> "HANN"
      [] str = "HANNING" -> "HANNIN"
      [] str = "HAMMING" -> "HAMMIN"
      [] OTHER -> str

\* window_map.get(win_key, window_map.get(win_key.rstrip("G"), "HANNING"))
window_command(win_key) ==
    IF win_key \in DOMAIN window_map THEN window_map[win_key]
    ELSE IF rstrip_G(win_key) \in DOMAIN window_map THEN window_map[rstrip_G(win_key)]
    ELSE "HANNING"

(***************************************************************************)
(* Helper specification: calls of _resolve_source and of                   *)
(* scope_capture_fft_trace on any channel, window and scale argument.      *)
(***************************************************************************)
InitResolve ==
    /\ \E ch \in {IntKey(n) : n \in 1..4}
                  \cup {StrKey(s) : s \in {"1", "007", "CH1", "ch2", "Ch4", " ch2 ", "MATH",
                                          "math", "REF1", "ref1", "Ref4", "ref5", "", "  ",
                                          "invalid", "chx", "CH", "²", "ch²"}}
                  \cup {[t |-> "none", n |-> 0, s |-> ""], [t |-> "object", n |-> 0, s |-> ""]} :
          call = [f |-> "_resolve_source", ch |-> ch, done |-> FALSE,
                  ret |-> SourceLabel("")]
    /\ DriverIdle

InitFft ==
    /\ \E source \in {IntKey(1), StrKey("ch2"), StrKey("math"), StrKey("²")},
          window \in {"hanning", "HANNING", " hanning ", "Hann", "hanng", "hamm", "Hamming",
                      "rect", "rectangle", "Rectangular", "black", "Blackman", "flat",
                      "flattop", "kaiser", "KAISER", "bartlett", ""},
          scale \in {"DB", "db", "dbm", "linear", "lin", "log"},
          have_pyvisa \in BOOLEAN, open_ok \in BOOLEAN, transfer_ok \in BOOLEAN :
          call = [f |-> "scope_capture_fft_trace", source |-> source, window |-> window,
                  scale |-> scale, have_pyvisa |-> have_pyvisa, open_ok |-> open_ok,
                  transfer_ok |-> transfer_ok, step |-> "validate", src |-> "",
                  win_cmd |-> "", scale_cmd |-> "", session |-> "none", writes |-> <<>>,
                  outcome |-> Running]
    /\ DriverIdle

CallResolve ==
    /\ call.f = "_resolve_source"
    /\ ~call.done
    /\ call' = [call EXCEPT !.done = TRUE, !.ret = _resolve_source(call.ch)]
    /\ UNCHANGED driver_vars

\* everything before the resource manager is created
FftValidate ==
    /\ call.f = "scope_capture_fft_trace"
    /\ call.step = "validate"
    /\ LET src == _resolve_source(call.source)
           win_cmd == window_command(strip(upper(call.window)))
           scl_key == strip(upper(call.scale))
           raised(exc) == [call EXCEPT !.step = "done",
                                       !.outcome = [kind |-> "raise", exc |-> exc]]
       IN call' =
             IF ~call.have_pyvisa
             THEN raised([type |-> "ImportError", msg |-> "pyvisa not available"])
             ELSE IF src.kind = "raise" THEN raised(src.exc)
             ELSE IF win_cmd \notin {window_map[key] : key \in DOMAIN window_map}
                  THEN raised([type |-> "TekError", msg |-> "Unsupported FFT window"])
             ELSE IF scl_key \notin DOMAIN scale_map
                  THEN raised([type |-> "TekError", msg |-> "Unsupported FFT scale"])
             ELSE [call EXCEPT !.step = "open", !.src = src.value, !.win_cmd = win_cmd,
                               !.scale_cmd = scale_map[scl_key]]
    /\ UNCHANGED driver_vars

\* rm.open_resource(resource), wrapped into TekError
FftOpen ==
    /\ call.f = "scope_capture_fft_trace"
    /\ call.step = "open"
    /\ call' = IF call.open_ok
               THEN [call EXCEPT !.step = "capture", !.session = "open"]
               ELSE [call EXCEPT !.step = "done",
                                 !.outcome = [kind |-> "raise",
                                              exc |-> [type |-> "TekError",
                                                       msg |-> "Failed to open scope resource"]]]
    /\ UNCHANGED driver_vars

\* configuration, transfer and the finally block
FftCapture ==
    /\ call.f = "scope_capture_fft_trace"
    /\ call.step = "capture"
    /\ call' = [call EXCEPT
                  !.step = "done",
                  !.session = "closed",
                  !.writes = <<"HEADER OFF", "MATH:DEFINE FFT", "MATH:SOURCE1 " \o call.src,
                               "MATH:SOUrce " \o call.src, "MATH:FFT:SOURCE " \o call.src,
                               "MATH:FFT:WINDOW " \o call.win_cmd,
                               "MATH:FFT:SCALE " \o call.scale_cmd, "MATH:FFT:STATE ON",
                               "DATA:SOURCE MATH", "MATH:FFT:STATE OFF">>,
                  !.outcome = IF call.transfer_ok THEN [kind |-> "return", exc |-> NoExc]
                              ELSE [kind |-> "raise",
                                    exc |-> [type |-> "VisaIOError", msg |-> "transfer failed"]]]
    /\ UNCHANGED driver_vars

NextTek == CallResolve \/ FftValidate \/ FftOpen \/ FftCapture

SpecTek == (InitResolve \/ InitFft) /\ [][NextTek]_vars

(***************************************************************************)
(* C29: scope_capture_fft_trace accepts as FFT window only rectangular,    *)
(* hanning, hamming, blackman and flattop and their listed abbreviations,  *)
(* in any letter case (surrounding blanks ignored); for any other window   *)
(* name it raises TekError "Unsupported FFT window" and opens no VISA      *)
(* session.  Stated for calls with pyvisa installed and a well-formed      *)
(* source, which reach the window validation.                              *)
(***************************************************************************)
ListedWindows ==
    {"hanning", "HANNING", " hanning ", "Hann", "hamm", "Hamming", "rect", "rectangle",
     "Rectangular", "black", "Blackman", "flat", "flattop"}

FftValidated ==
    /\ call.f = "scope_capture_fft_trace"
    /\ call.have_pyvisa
    /\ call.source # StrKey("²")
    /\ call.step # "validate"

C29_UnsupportedWindowRejected ==
    FftValidated =>
        IF call.window \in ListedWindows
        THEN call.outcome # [kind |-> "raise",
                               exc |-> [type |-> "TekError", msg |-> "Unsupported FFT window"]]
        ELSE /\ call.step = "done"
             /\ call.outcome = [kind |-> "raise",
                                exc |-> [type |-> "TekError", msg |-> "Unsupported FFT window"]]
             /\ call.session = "none"
             /\ call.writes = <<>>

(***************************************************************************)
(* C30: _resolve_source never raises and always returns a canonical        *)
(* source label: "CH<n>" for an integer n and for the strings "<n>" and    *)
(* "CH<n>" in any letter case, the upper-cased name for MATH and           *)
(* REF1..REF4 in any letter case, and "CH1" for an empty string, None or   *)
(* any unrecognised input.  Surrounding blanks of a string are ignored.    *)
(***************************************************************************)
CanonicalLabel(ch) ==
    CASE ch.t = "int" -> "CH" \o ToString(ch.n)
      [] ch.t = "str" /\ ch.s \in {"1", "CH1"} -> "CH1"
      [] ch.t = "str" /\ ch.s \in {"ch2", " ch2 "} -> "CH2"
      [] ch.t = "str" /\ ch.s = "Ch4" -> "CH4"
      [] ch.t = "str" /\ ch.s = "007" -> "CH7"
      [] ch.t = "str" /\ ch.s \in {"MATH", "math"} -> "MATH"
      [] ch.t = "str" /\ ch.s \in {"REF1", "ref1"} -> "REF1"
      [] ch.t = "str" /\ ch.s = "Ref4" -> "REF4"
      [] OTHER -> "CH1"

C30_ResolveSourceTotal ==
    (call.f = "_resolve_source" /\ call.done) =>
        /\ call.ret.kind = "return"
        /\ call.ret.value = CanonicalLabel(call.ch)

====
